---- MODULE Spec2Model ----
(***************************************************************************)
(* The BSD/AArch64 signal dispatcher JVM_handle_bsd_signal of              *)
(* os_bsd_aarch64.cpp as a state machine.  One delivery of a signal to a   *)
(* thread is one step: the whole handler runs, from the crash-protection   *)
(* check to its return (or to the fatal report).  The file holds two       *)
(* variants of the handler, selected at build time: the macOS one          *)
(* (#ifdef __APPLE__, "apple") and the one of the other BSDs ("bsd"), with *)
(* a compensation of the fault address that only FreeBSD builds hold.      *)
(***************************************************************************)
EXTENDS Integers, FiniteSets, Sequences, TLC

VARIABLES
  platform,                      \* build variant: "apple" or "bsd"
  signal_handlers_are_installed, \* os::Bsd::signal_handlers_are_installed
  stack_guard_state,             \* per Java thread: which of yellow/reserved is unguarded
  red_zone_disabled,             \* per Java thread: red zone unguarded
  reserved_stack_activation,     \* per Java thread
  saved_exception_pc,            \* per Java thread
  previous,                      \* per Java thread: its last delivery of this episode
  last,                          \* the delivery being observed: what it read, what it did
  deliveries,                    \* number of deliveries so far
  freebsd,                       \* UnixOperatingSystem.c built with __FreeBSD__
  initialized,                   \* perfInit's static flag
  counters,                      \* UnixOperatingSystem.c: static struct perfbuf
  call,                          \* the CPU-load call being observed
  calls,                         \* number of CPU-load calls so far
  copy                           \* the conjoint copy being observed: its pointers, memory, stores

vars == <<platform, signal_handlers_are_installed, stack_guard_state, red_zone_disabled,
          reserved_stack_activation, saved_exception_pc, previous, last, deliveries,
          freebsd, initialized, counters, call, calls, copy>>

\* The variables of the signal dispatcher and those of the CPU-load queries; the
\* last variable, copy, is that of the copy routines.
handler_vars == <<platform, signal_handlers_are_installed, stack_guard_state,
                  red_zone_disabled, reserved_stack_activation, saved_exception_pc,
                  previous, last, deliveries>>
cpu_vars == <<freebsd, initialized, counters, call, calls>>

(***************************************************************************)
(* Bounds of the model.                                                    *)
(***************************************************************************)
MaxDeliveries == 2

(***************************************************************************)
(* Threads.  t is Thread::current_or_null_safe(): a Java thread, a thread  *)
(* of the VM that is no Java thread (the VM thread, the sampler thread),   *)
(* or none.  Crash-protected regions are installed by the VM's own service *)
(* threads, never by a Java thread.                                        *)
(***************************************************************************)
JavaThreads == {"J1", "J2"}
NoThread == "none"
VMThread == "VM"
CurrentThreads == JavaThreads \cup {VMThread, NoThread}

is_Java_thread(t) == t \in JavaThreads
is_VM_thread(t) == t = VMThread
CanBeCrashProtected(t) == t = VMThread

ThreadModes == {"_thread_in_Java", "_thread_in_vm", "_thread_in_native"}

Platforms == {"apple", "bsd"}

Signals == {"SIGSEGV", "SIGBUS", "SIGILL", "SIGTRAP", "SIGFPE", "SIGPIPE", "SIGXFSZ"}

FpeCodes == {"FPE_INTDIV", "FPE_FLTDIV", "FPE_NOOP", "FPE_OTHER"}

(***************************************************************************)
(* Addresses, in pages.  The regions are disjoint mappings of the process. *)
(***************************************************************************)
NullPage == 0        \* MacroAssembler::needs_explicit_null_check is false here only
HeapPage == 1        \* some mapped or unmapped page that is none of the others
PollPage == 2        \* os::is_poll_address
SerializePage == 3   \* os::is_memory_serialize_page
AssertPoisonPage == 4 \* g_assert_poison

\* A Java thread's stack, low to high: red, yellow, reserved, then the usable part.
stack_end(t) == IF t = "J1" THEN 10 ELSE 20
stack_red_zone_base(t) == stack_end(t) + 1
stack_yellow_zone_base(t) == stack_red_zone_base(t) + 1
stack_reserved_zone_base(t) == stack_yellow_zone_base(t) + 1
stack_base(t) == stack_reserved_zone_base(t) + 1

on_local_stack(t, a) == a >= stack_end(t) /\ a < stack_base(t) + 1
in_stack_red_zone(t, a) == a >= stack_end(t) /\ a < stack_red_zone_base(t)
in_stack_reserved_zone(t, a) ==
  a >= stack_yellow_zone_base(t) /\ a < stack_reserved_zone_base(t)
in_stack_yellow_reserved_zone(t, a) ==
  a >= stack_red_zone_base(t) /\ a < stack_reserved_zone_base(t)

needs_explicit_null_check(a) == a # NullPage
is_poll_address(a) == a = PollPage
is_memory_serialize_page(a) == a = SerializePage

FaultAddrs == {NullPage, HeapPage, PollPage, SerializePage, AssertPoisonPage,
               stack_end("J1"), stack_red_zone_base("J1"),
               stack_yellow_zone_base("J1"), stack_reserved_zone_base("J1")}

(***************************************************************************)
(* Program counters, in bytes.                                             *)
(***************************************************************************)
NULL == 0
instruction_size == 4       \* NativeInstruction::instruction_size, NativeCall::instruction_size

SafeFetch32FaultPc == 8
SafeFetchNFaultPc == 16
FastAccessorPc == 24        \* a speculative load of jni_fast_Get<Primitive>Field
InterpreterPc == 40         \* Interpreter::contains
NmethodBangPc == 48         \* nmethod, frame not complete at pc, has_unsafe_access
NmethodBodyPc == 56         \* nmethod, frame complete at pc, no unsafe access
ZombiePc == 64              \* nmethod entry patched with the not-entrant trap
NativePc == 72              \* no code blob

NativePcs == {SafeFetch32FaultPc, SafeFetchNFaultPc, NativePc}
ContextPcs == {SafeFetch32FaultPc, SafeFetchNFaultPc, FastAccessorPc, InterpreterPc,
               NmethodBangPc, NmethodBodyPc, ZombiePc, NativePc}

\* StubRoutines::is_safefetch_fault / continuation_for_safefetch_fault
is_safefetch_fault(pc) == pc \in {SafeFetch32FaultPc, SafeFetchNFaultPc}
continuation_for_safefetch_fault(pc) == pc + instruction_size

\* JNI_FastGetField::find_slowcase_pc: -1 when pc is no registered speculative load
SlowCasePc == 240           \* the slow-case entry of FastAccessorPc's accessor
find_slowcase_pc(pc) == IF pc = FastAccessorPc THEN SlowCasePc ELSE -1

Interpreter_contains(pc) == pc = InterpreterPc
is_nmethod(pc) == pc \in {NmethodBangPc, NmethodBodyPc, ZombiePc}
is_frame_complete_at(pc) == pc \in {NmethodBodyPc}
has_unsafe_access(pc) == pc = NmethodBangPc
is_sigill_zombie_not_entrant(pc) == pc = ZombiePc

\* Runtime stubs (SharedRuntime, StubRoutines, Interpreter entries).
StackOverflowStub == 200
DivideByZeroStub == 208
ImplicitNullStub == 216
PollStub == 224
WrongMethodStub == 232

continuation_for_implicit_exception(pc, kind) ==
  LET entry == CASE kind = "STACK_OVERFLOW" -> StackOverflowStub
                 [] kind = "IMPLICIT_DIVIDE_BY_ZERO" -> DivideByZeroStub
                 [] OTHER -> ImplicitNullStub
  IN IF Interpreter_contains(pc) THEN entry + instruction_size ELSE entry
get_poll_stub(pc) == PollStub
get_handle_wrong_method_stub == WrongMethodStub
handle_unsafe_access(next_pc) == next_pc

(***************************************************************************)
(* A fault: what one delivery hands to the handler and what the handler    *)
(* can read while it runs.  has_info/has_uc say whether info/ucVoid are    *)
(* non-NULL.  The fields from crash_protected on are answers of the        *)
(* environment to a question the handler asks on some paths only; a        *)
(* question that is not asked keeps the default answer.                    *)
(***************************************************************************)
DefaultFault ==
  [t |-> NoThread, sig |-> "SIGSEGV", abort_if_unrecognized |-> FALSE,
   has_info |-> FALSE, si_addr |-> NULL, si_code |-> "none",
   has_uc |-> FALSE, pc |-> NULL, lr |-> NULL, sp |-> NULL, fp |-> NULL,
   x |-> NULL,                   \* the general registers x0..x28 of the context
   thread_state |-> "_thread_in_Java",
   crash_protected |-> FALSE,    \* t is ThreadCrashProtection's protected thread
   assert_poison |-> FALSE,      \* CAN_SHOW_REGISTERS_ON_ASSERT build, poison fault handled
   guard_pages |-> 0,            \* kernel guard pages compensated for (0 but on FreeBSD)
   first_java_frame |-> FALSE,   \* frame::is_first_java_frame of the context's frame
   annotated |-> "none",         \* look_for_reserved_stack_annotated_method's answer
   doing_unsafe_access |-> FALSE,
   chained |-> FALSE]            \* os::Bsd::chained_handler's answer

(***************************************************************************)
(* Frames.  A frame is (sp, fp, pc); the stack the handler walks is the    *)
(* environment's.                                                          *)
(***************************************************************************)
frame(sp, fp, pc) == [sp |-> sp, fp |-> fp, pc |-> pc]
NoFrame == frame(NULL, NULL, NULL)

ContextSp == 1000
ContextFp == 1008
ContextLr == 60           \* a return address inside NmethodBodyPc's nmethod
ContextX == 7             \* the value held by the general registers
StubReturnLr == 76        \* a return address outside the interpreter and every nmethod
JavaSenderFrame == frame(1016, 1024, NmethodBodyPc)
interpreter_frame_initial_sp_offset == -10

is_interpreted_frame(fr) == Interpreter_contains(fr.pc)
is_java_frame(fr) == is_interpreted_frame(fr) \/ is_nmethod(fr.pc)
java_sender(fr) == JavaSenderFrame
unextended_sp(fr) == fr.sp

\* SharedRuntime::look_for_reserved_stack_annotated_method: the activation of the
\* nearest annotated method at or above fr, a frame with sp = NULL when there is none.
InterpretedActivation == frame(1032, 1040, InterpreterPc)
CompiledActivation == frame(1048, 1056, NmethodBodyPc)
look_for_reserved_stack_annotated_method(f, fr) ==
  CASE f.annotated = "interpreted" -> InterpretedActivation
    [] f.annotated = "compiled" -> CompiledActivation
    [] OTHER -> NoFrame

ucontext_get_pc(f) == f.pc
ucontext_get_sp(f) == f.sp
ucontext_get_fp(f) == f.fp

\* The register fields of the ucontext_t the handler is given, and the one
\* function that writes to it.
Context(f) == [pc |-> f.pc, lr |-> f.lr, sp |-> f.sp, fp |-> f.fp, x |-> f.x]
\* A faulty variant: the return address redirected along with the pc.
ucontext_set_pc_and_lr(uc, pc) == [uc EXCEPT !.pc = pc, !.lr = pc]
ucontext_set_pc(uc, pc) == [uc EXCEPT !.pc = pc]

fetch_frame_from_context(f) ==
  IF f.has_uc THEN frame(ucontext_get_sp(f), ucontext_get_fp(f), ucontext_get_pc(f))
  ELSE NoFrame

\* A faulty variant: the frame built at the faulting pc.
CompiledBangingFrame_at_pc(f) ==
  frame(ucontext_get_sp(f), ucontext_get_fp(f), ucontext_get_pc(f))
\* The frame built at a compiled method's stack bang, where LR is live and SP
\* and FP belong to the caller.
CompiledBangingFrame(f) ==
  frame(ucontext_get_sp(f), ucontext_get_fp(f), f.lr - instruction_size)

\* A faulty variant: in the interpreter the Java sender is taken of the first
\* Java frame too.
get_frame_at_stack_banging_point_always_sender(f) ==
  LET pc == ucontext_get_pc(f) IN
  IF Interpreter_contains(pc)
  THEN [ok |-> TRUE, fr |-> java_sender(fetch_frame_from_context(f)),
        asked |-> {"first_java_frame"}]
  ELSE IF ~is_nmethod(pc) \/ is_frame_complete_at(pc)
       THEN [ok |-> FALSE, fr |-> NoFrame, asked |-> {}]
       ELSE LET fr == CompiledBangingFrame(f)
            IN [ok |-> TRUE,
                fr |-> IF ~is_java_frame(fr) THEN java_sender(fr) ELSE fr,
                asked |-> {}]
\* A faulty variant: no frame is reported when the frame built at a compiled
\* method's stack bang is no Java frame.
get_frame_at_stack_banging_point_no_sender(f) ==
  LET pc == ucontext_get_pc(f) IN
  IF Interpreter_contains(pc)
  THEN LET fr == fetch_frame_from_context(f) IN
       [ok |-> TRUE,
        fr |-> IF ~f.first_java_frame THEN java_sender(fr) ELSE fr,
        asked |-> {"first_java_frame"}]
  ELSE IF ~is_nmethod(pc) \/ is_frame_complete_at(pc)
            \/ ~is_java_frame(CompiledBangingFrame(f))
       THEN [ok |-> FALSE, fr |-> NoFrame, asked |-> {}]
       ELSE [ok |-> TRUE, fr |-> CompiledBangingFrame(f), asked |-> {}]
\* os::Bsd::get_frame_at_stack_banging_point: [ok, fr, asked]; asked is the set of
\* questions put to the environment.
get_frame_at_stack_banging_point(f) ==
  LET pc == ucontext_get_pc(f) IN
  IF Interpreter_contains(pc)
  THEN LET fr == fetch_frame_from_context(f) IN
       [ok |-> TRUE,
        fr |-> IF ~f.first_java_frame THEN java_sender(fr) ELSE fr,
        asked |-> {"first_java_frame"}]
  ELSE IF ~is_nmethod(pc) \/ is_frame_complete_at(pc)
       THEN [ok |-> FALSE, fr |-> NoFrame, asked |-> {}]
       ELSE LET fr == CompiledBangingFrame(f)
            IN [ok |-> TRUE,
                fr |-> IF ~is_java_frame(fr) THEN java_sender(fr) ELSE fr,
                asked |-> {}]

(***************************************************************************)
(* The pieces of JVM_handle_bsd_signal, in the order of the code.          *)
(***************************************************************************)
MemoryFault(sig) == sig \in {"SIGSEGV", "SIGBUS"}

\* os::ThreadCrashProtection::check_crash_protection(sig, t): restores the saved
\* point (longjmp) for a memory fault of the protected thread.
check_crash_protection(sig, t, f) ==
  t # NoThread /\ f.crash_protected /\ MemoryFault(sig)

\* A faulty variant: SIGXFSZ is not filtered.
IsIgnorableSignal_only_SIGPIPE(sig) == sig = "SIGPIPE"
IsIgnorableSignal(sig) == sig = "SIGPIPE" \/ sig = "SIGXFSZ"

\* A faulty variant: the handler works on one fixed Java thread, not on the
\* current one.
RecognizedJavaThread_first_thread(installed, t) ==
  IF installed /\ t # NoThread /\ is_Java_thread(t) THEN "J1" ELSE NoThread
\* A faulty variant: the installed flag is not tested.
RecognizedJavaThread_without_flag(installed, t) ==
  IF t # NoThread /\ is_Java_thread(t) THEN t ELSE NoThread
\* The JavaThread* thread of the handler: NULL (NoThread) unless the handlers are
\* installed and t is a Java thread.
RecognizedJavaThread(installed, t) ==
  IF installed /\ t # NoThread /\ is_Java_thread(t) THEN t ELSE NoThread

\* A faulty variant: the SafeFetch test made only when info is not NULL.
SafeFetchHit_only_with_info(f) ==
  f.has_info /\ f.has_uc /\ ucontext_get_pc(f) # NULL
  /\ is_safefetch_fault(ucontext_get_pc(f))
\* A faulty variant: only SafeFetch32's fault pc is looked up.
SafeFetchHit_only_SafeFetch32(f) ==
  f.has_uc /\ ucontext_get_pc(f) = SafeFetch32FaultPc
SafeFetchHit(f) ==
  f.has_uc /\ ucontext_get_pc(f) # NULL /\ is_safefetch_fault(ucontext_get_pc(f))

\* A faulty variant: the stack overflow code entered for SIGSEGV only in every build.
StackOverflowSignal_only_SIGSEGV(plat, sig) == sig = "SIGSEGV"
\* The signals whose fault address is tested against the thread's stack.
StackOverflowSignal(plat, sig) ==
  IF plat = "apple" THEN sig = "SIGSEGV" \/ sig = "SIGBUS" ELSE sig = "SIGSEGV"

\* The address tested against the stack: in the BSD variant the fault address
\* lowered by the kernel's guard pages.  guard_pages is 0 on OpenBSD and NetBSD,
\* and on FreeBSD when the stack gap is disabled or security.bsd.stack_guard_page
\* is 0.
\* A faulty variant: the fault address taken as delivered in every build.
StackOverflowAddress_uncompensated(plat, f) == f.si_addr
StackOverflowAddress(plat, f) ==
  IF plat = "bsd" THEN f.si_addr - f.guard_pages ELSE f.si_addr

\* The guard-zone operation each branch of the stack overflow code calls.  The
\* faulty variants call another operation of JavaThread.
ReservedZoneOp == "disable_stack_reserved_zone"
enable_for_disable_reserved == "enable_stack_reserved_zone"
JavaYellowZoneOp == "disable_stack_yellow_reserved_zone"       \* _thread_in_Java
enable_for_disable_yellow == "enable_stack_yellow_reserved_zone"
no_zone_operation == "none"
RuntimeYellowZoneOp == "disable_stack_yellow_reserved_zone"    \* in the vm or native code
yellow_for_red == "disable_stack_yellow_reserved_zone"
RedZoneOp == "disable_stack_red_zone"

\* The value handed to set_reserved_stack_activation.  The faulty variant takes
\* the unextended sp of an interpreted activation too.
ReservedStackActivation_always_sp(activation) == unextended_sp(activation)
ReservedStackActivation(activation) ==
  IF is_interpreted_frame(activation)
  THEN activation.fp + interpreter_frame_initial_sp_offset
  ELSE unextended_sp(activation)

\* The stub of a stack overflow in Java code.  The faulty variant asks for the
\* continuation of an implicit null exception.
StackOverflowContinuation_as_null(pc) ==
  continuation_for_implicit_exception(pc, "IMPLICIT_NULL")
StackOverflowContinuation(pc) ==
  continuation_for_implicit_exception(pc, "STACK_OVERFLOW")

NoStackOverflow ==
  [op |-> "none", stub |-> NULL, return1 |-> FALSE,
   set_activation |-> FALSE, activation |-> NULL, fr |-> NoFrame, asked |-> {}]

\* "Handle ALL stack overflow variations here"
StackOverflowRule(plat, thread, f) ==
  IF ~StackOverflowSignal(plat, f.sig) THEN NoStackOverflow
  ELSE
  LET addr == StackOverflowAddress(plat, f)
      q0 == IF plat = "bsd" THEN {"guard_pages"} ELSE {}
  IN
  IF ~on_local_stack(thread, addr) THEN [NoStackOverflow EXCEPT !.asked = q0]
  ELSE IF in_stack_yellow_reserved_zone(thread, addr)
  THEN IF f.thread_state = "_thread_in_Java"
       THEN LET got == IF in_stack_reserved_zone(thread, addr)
                       THEN get_frame_at_stack_banging_point(f)
                       ELSE [ok |-> FALSE, fr |-> NoFrame, asked |-> {}]
                activation == IF got.ok
                              THEN look_for_reserved_stack_annotated_method(f, got.fr)
                              ELSE NoFrame
                q1 == q0 \cup got.asked \cup (IF got.ok THEN {"annotated"} ELSE {})
            IN IF got.ok /\ activation.sp # NULL
               THEN [op |-> ReservedZoneOp, stub |-> NULL,
                     return1 |-> TRUE, set_activation |-> TRUE,
                     activation |-> ReservedStackActivation(activation),
                     fr |-> got.fr, asked |-> q1]
               ELSE [op |-> JavaYellowZoneOp,
                     stub |-> StackOverflowContinuation(f.pc),
                     return1 |-> FALSE, set_activation |-> FALSE, activation |-> NULL,
                     fr |-> got.fr, asked |-> q1]
       ELSE [op |-> RuntimeYellowZoneOp, stub |-> NULL,
             return1 |-> TRUE, set_activation |-> FALSE, activation |-> NULL,
             fr |-> NoFrame, asked |-> q0]
  ELSE IF in_stack_red_zone(thread, addr)
  THEN [op |-> RedZoneOp, stub |-> NULL, return1 |-> FALSE,
        set_activation |-> FALSE, activation |-> NULL, fr |-> NoFrame, asked |-> q0]
  ELSE [NoStackOverflow EXCEPT !.asked = q0]

NoStub == [rule |-> "none", stub |-> NULL, unimplemented |-> FALSE, asked |-> {}]

ZombieSignal(plat, sig) ==
  IF plat = "apple" THEN sig = "SIGILL" ELSE sig = "SIGILL" \/ sig = "SIGTRAP"
\* A faulty variant: the poll test of the BSD variant in the macOS variant too.
PollSignal_only_SIGSEGV(plat, sig) == sig = "SIGSEGV"
PollSignal(plat, sig) ==
  IF plat = "apple" THEN sig = "SIGSEGV" \/ sig = "SIGBUS" ELSE sig = "SIGSEGV"
\* A faulty variant: every SIGBUS taken by the unsafe-access branch in every build.
UnsafeAccessFault_any_SIGBUS(plat, f) == f.sig = "SIGBUS"
UnsafeAccessFault(plat, f) ==
  IF plat = "apple" THEN f.sig = "SIGBUS" /\ needs_explicit_null_check(f.si_addr)
  ELSE f.sig = "SIGBUS"
\* A faulty variant: the null test of the BSD variant in the macOS variant too.
NullCheckSignal_only_SIGSEGV(plat, sig) == sig = "SIGSEGV"
NullCheckSignal(plat, sig) ==
  IF plat = "apple" THEN sig = "SIGSEGV" \/ sig = "SIGBUS" ELSE sig = "SIGSEGV"

\* The codes of SIGFPE sent to the division stub.  The faulty variant leaves
\* out the floating point code.
DivideByZeroCode_only_INTDIV(si_code) == si_code = "FPE_INTDIV"
DivideByZeroCode(si_code) == si_code = "FPE_INTDIV" \/ si_code = "FPE_FLTDIV"

\* "Java thread running in Java code => find exception handler if any"
JavaCodeRule(plat, f) ==
  LET pc == f.pc IN
  IF ZombieSignal(plat, f.sig) /\ is_sigill_zombie_not_entrant(pc)
  THEN [NoStub EXCEPT !.rule = "zombie", !.stub = get_handle_wrong_method_stub]
  ELSE IF PollSignal(plat, f.sig) /\ is_poll_address(f.si_addr)
  THEN [NoStub EXCEPT !.rule = "poll", !.stub = get_poll_stub(pc)]
  ELSE IF UnsafeAccessFault(plat, f)
  THEN IF is_nmethod(pc) /\ has_unsafe_access(pc)
       THEN [NoStub EXCEPT !.rule = "unsafe_access",
                           !.stub = handle_unsafe_access(pc + instruction_size)]
       ELSE NoStub
  ELSE IF f.sig = "SIGFPE" /\ DivideByZeroCode(f.si_code)
  THEN [NoStub EXCEPT !.rule = "divide_by_zero",
                      !.stub = continuation_for_implicit_exception(pc, "IMPLICIT_DIVIDE_BY_ZERO")]
  ELSE IF plat = "apple" /\ f.sig = "SIGFPE" /\ f.si_code = "FPE_NOOP"
  THEN [NoStub EXCEPT !.unimplemented = TRUE]
  ELSE IF NullCheckSignal(plat, f.sig) /\ ~needs_explicit_null_check(f.si_addr)
  THEN [NoStub EXCEPT !.rule = "implicit_null",
                      !.stub = continuation_for_implicit_exception(pc, "IMPLICIT_NULL")]
  ELSE NoStub

\* The modes in which a bus fault during an unsafe access is redirected.
UnsafeAccessMode(plat, mode) ==
  IF plat = "apple" THEN mode = "_thread_in_vm" \/ mode = "_thread_in_native"
  ELSE mode = "_thread_in_vm"

RuntimeCodeRule(plat, f) ==
  IF UnsafeAccessMode(plat, f.thread_state) /\ f.sig = "SIGBUS"
  THEN IF f.doing_unsafe_access
       THEN [NoStub EXCEPT !.rule = "unsafe_access_vm",
                           !.stub = handle_unsafe_access(f.pc + instruction_size),
                           !.asked = {"doing_unsafe_access"}]
       ELSE [NoStub EXCEPT !.asked = {"doing_unsafe_access"}]
  ELSE NoStub

\* A faulty variant: the rules for Java code applied in every thread state.
ModeRule_any_state(plat, f, stub0) ==
  IF plat # "apple" \/ stub0 = NULL THEN JavaCodeRule(plat, f) ELSE NoStub
\* The in-Java / in-runtime alternative; stub0 is the stack overflow rule's stub.
\* Only the macOS variant skips the in-Java rules when a stub is already set.
ModeRule(plat, f, stub0) ==
  IF f.thread_state = "_thread_in_Java" /\ (plat # "apple" \/ stub0 = NULL)
  THEN JavaCodeRule(plat, f)
  ELSE RuntimeCodeRule(plat, f)

\* A faulty variant: the slow-case lookup made for SIGSEGV only.
SlowCaseRule_only_SIGSEGV(f) ==
  IF f.sig = "SIGSEGV" /\ find_slowcase_pc(f.pc) # -1
  THEN [NoStub EXCEPT !.rule = "slowcase", !.stub = find_slowcase_pc(f.pc)]
  ELSE NoStub
SlowCaseRule(f) ==
  IF MemoryFault(f.sig) /\ find_slowcase_pc(f.pc) # -1
  THEN [NoStub EXCEPT !.rule = "slowcase", !.stub = find_slowcase_pc(f.pc)]
  ELSE NoStub

\* A faulty variant: the serialize page tested for every signal.
SerializePageRule_any_signal(f) == is_memory_serialize_page(f.si_addr)
\* A faulty variant: the serialize page tested for SIGBUS.
SerializePageRule_only_SIGBUS(f) ==
  f.sig = "SIGBUS" /\ is_memory_serialize_page(f.si_addr)
SerializePageRule(f) ==
  f.sig = "SIGSEGV" /\ is_memory_serialize_page(f.si_addr)

(***************************************************************************)
(* The result of one run of the handler.                                   *)
(*   ret   "handled" (returns true/1), "unhandled" (returns false),        *)
(*         "fatal" (VMError::report_and_die), "longjmp" (crash protection),*)
(*         "unimplemented" (Unimplemented())                               *)
(*   via   the statement that ended the run                                *)
(*   op    the guard-zone operation called on the thread, "none" if none   *)
(*   stubs the assignments made to the local stub, in order                *)
(*   pc    the context's program counter at the end; pc_writes counts the  *)
(*         calls of ucontext_set_pc                                        *)
(***************************************************************************)
Result(f) ==
  [ret |-> "handled", via |-> "none", thread |-> NoThread, op |-> "none",
   set_activation |-> FALSE, activation |-> NULL,
   set_saved_pc |-> FALSE, saved_pc |-> NULL,
   stubs |-> << >>, pc |-> f.pc, pc_writes |-> 0, uc |-> Context(f),
   fr |-> NoFrame,
   chain_calls |-> 0, blocked |-> FALSE, asked |-> {}]

Assigned(rule) == IF rule.stub # NULL THEN << [rule |-> rule.rule, stub |-> rule.stub] >>
                  ELSE << >>

FinalStub(stubs) == IF Len(stubs) = 0 THEN NULL ELSE stubs[Len(stubs)].stub
FinalRule(stubs) == IF Len(stubs) = 0 THEN "none" ELSE stubs[Len(stubs)].rule

\* A faulty variant: abort_if_unrecognized tested before the chained handler.
HandlerTail_abort_before_chain(f, r) ==
  LET stub == FinalStub(r.stubs) IN
  IF stub # NULL
  THEN [r EXCEPT !.ret = "handled", !.via = "stub", !.pc = stub, !.pc_writes = @ + 1,
                 !.uc = ucontext_set_pc(@, stub),
                 !.set_saved_pc = (r.thread # NoThread),
                 !.saved_pc = IF r.thread # NoThread THEN f.pc ELSE NULL]
  ELSE IF ~f.abort_if_unrecognized
  THEN [r EXCEPT !.ret = "unhandled", !.via = "unhandled",
                 !.asked = @ \cup {"abort_if_unrecognized"}]
  ELSE IF f.chained
  THEN [r EXCEPT !.ret = "handled", !.via = "chain", !.chain_calls = @ + 1,
                 !.asked = @ \cup {"chained", "abort_if_unrecognized"}]
  ELSE [r EXCEPT !.ret = "fatal", !.via = "fatal", !.chain_calls = @ + 1,
                 !.asked = @ \cup {"chained", "abort_if_unrecognized"}]
\* A faulty variant: the pc is written for every stub a rule has chosen.
HandlerTail_write_each_stub(f, r) ==
  LET stub == FinalStub(r.stubs) IN
  IF stub # NULL
  THEN [r EXCEPT !.ret = "handled", !.via = "stub", !.pc = stub, !.pc_writes = @ + Len(r.stubs),
                 !.uc = ucontext_set_pc(@, stub),
                 !.set_saved_pc = (r.thread # NoThread),
                 !.saved_pc = IF r.thread # NoThread THEN f.pc ELSE NULL]
  ELSE IF f.chained
  THEN [r EXCEPT !.ret = "handled", !.via = "chain", !.chain_calls = @ + 1,
                 !.asked = @ \cup {"chained"}]
  ELSE IF ~f.abort_if_unrecognized
  THEN [r EXCEPT !.ret = "unhandled", !.via = "unhandled", !.chain_calls = @ + 1,
                 !.asked = @ \cup {"chained", "abort_if_unrecognized"}]
  ELSE [r EXCEPT !.ret = "fatal", !.via = "fatal", !.chain_calls = @ + 1,
                 !.asked = @ \cup {"chained", "abort_if_unrecognized"}]
\* A faulty variant: the saved exception pc is read from the context after the
\* stub has been written to it.
HandlerTail_save_after_write(f, r) ==
  LET stub == FinalStub(r.stubs) IN
  IF stub # NULL
  THEN [r EXCEPT !.ret = "handled", !.via = "stub", !.pc = stub, !.pc_writes = @ + 1,
                 !.uc = ucontext_set_pc(@, stub),
                 !.set_saved_pc = (r.thread # NoThread),
                 !.saved_pc = IF r.thread # NoThread THEN stub ELSE NULL]
  ELSE IF f.chained
  THEN [r EXCEPT !.ret = "handled", !.via = "chain", !.chain_calls = @ + 1,
                 !.asked = @ \cup {"chained"}]
  ELSE IF ~f.abort_if_unrecognized
  THEN [r EXCEPT !.ret = "unhandled", !.via = "unhandled", !.chain_calls = @ + 1,
                 !.asked = @ \cup {"chained", "abort_if_unrecognized"}]
  ELSE [r EXCEPT !.ret = "fatal", !.via = "fatal", !.chain_calls = @ + 1,
                 !.asked = @ \cup {"chained", "abort_if_unrecognized"}]
\* From "if (stub != NULL)" to the end: redirect, chain, unhandled, fatal.
HandlerTail(f, r) ==
  LET stub == FinalStub(r.stubs) IN
  IF stub # NULL
  THEN [r EXCEPT !.ret = "handled", !.via = "stub", !.pc = stub, !.pc_writes = @ + 1,
                 !.uc = ucontext_set_pc(@, stub),
                 !.set_saved_pc = (r.thread # NoThread),
                 !.saved_pc = IF r.thread # NoThread THEN f.pc ELSE NULL]
  ELSE IF f.chained
  THEN [r EXCEPT !.ret = "handled", !.via = "chain", !.chain_calls = @ + 1,
                 !.asked = @ \cup {"chained"}]
  ELSE IF ~f.abort_if_unrecognized
  THEN [r EXCEPT !.ret = "unhandled", !.via = "unhandled", !.chain_calls = @ + 1,
                 !.asked = @ \cup {"chained", "abort_if_unrecognized"}]
  ELSE [r EXCEPT !.ret = "fatal", !.via = "fatal", !.chain_calls = @ + 1,
                 !.asked = @ \cup {"chained", "abort_if_unrecognized"}]

\* The block "if (info != NULL && uc != NULL && thread != NULL)".
Classify(plat, thread, f, r0) ==
  LET so == StackOverflowRule(plat, thread, f)
      r1 == [r0 EXCEPT !.op = so.op, !.set_activation = so.set_activation,
                       !.activation = so.activation, !.fr = so.fr,
                       !.asked = @ \cup so.asked,
                       !.stubs = Assigned([rule |-> "stack_overflow", stub |-> so.stub])]
  IN
  IF so.return1
  THEN [r1 EXCEPT !.ret = "handled",
                  !.via = IF so.set_activation THEN "reserved_zone" ELSE "yellow_zone"]
  ELSE
  LET mr == ModeRule(plat, f, so.stub)
      sc == SlowCaseRule(f)
      r2 == [r1 EXCEPT !.stubs = @ \o Assigned(mr) \o Assigned(sc),
                       !.asked = @ \cup mr.asked]
  IN
  IF mr.unimplemented THEN [r2 EXCEPT !.ret = "unimplemented", !.via = "unimplemented"]
  ELSE IF SerializePageRule(f)
  THEN [r2 EXCEPT !.ret = "handled", !.via = "serialize_page", !.blocked = TRUE]
  ELSE HandlerTail(f, r2)

\* A faulty variant: the rules are run without signal info.
AfterCrashProtection_without_info(plat, installed, f) ==
  LET t == f.t
      r0 == [Result(f) EXCEPT
               !.asked = (IF CanBeCrashProtected(t) /\ MemoryFault(f.sig)
                          THEN {"crash_protected"} ELSE {})]
  IN
  IF IsIgnorableSignal(f.sig)
  THEN [r0 EXCEPT !.ret = "handled", !.via = "ignorable", !.chain_calls = 1,
                  !.asked = @ \cup {"chained"}]
  ELSE
  LET poison == MemoryFault(f.sig) /\ f.has_info /\ f.si_addr = AssertPoisonPage
      r1 == [r0 EXCEPT !.asked = @ \cup (IF poison THEN {"assert_poison"} ELSE {})]
  IN
  IF poison /\ f.assert_poison
  THEN [r1 EXCEPT !.ret = "handled", !.via = "assert_poison"]
  ELSE
  LET thread == RecognizedJavaThread(installed, t)
      r2 == [r1 EXCEPT !.thread = thread]
  IN
  IF SafeFetchHit(f)
  THEN [r2 EXCEPT !.ret = "handled", !.via = "safefetch",
                  !.pc = continuation_for_safefetch_fault(ucontext_get_pc(f)),
                  !.uc = ucontext_set_pc(@, continuation_for_safefetch_fault(
                                              ucontext_get_pc(f))),
                  !.pc_writes = 1]
  ELSE IF f.has_uc /\ thread # NoThread
  THEN Classify(plat, thread, f, r2)
  ELSE HandlerTail(f, r2)
\* The handler from "SignalHandlerMark shm(t)" on: what runs when crash
\* protection did not take the fault.
AfterCrashProtection(plat, installed, f) ==
  LET t == f.t
      r0 == [Result(f) EXCEPT
               !.asked = (IF CanBeCrashProtected(t) /\ MemoryFault(f.sig)
                          THEN {"crash_protected"} ELSE {})]
  IN
  IF IsIgnorableSignal(f.sig)
  THEN [r0 EXCEPT !.ret = "handled", !.via = "ignorable", !.chain_calls = 1,
                  !.asked = @ \cup {"chained"}]
  ELSE
  LET poison == MemoryFault(f.sig) /\ f.has_info /\ f.si_addr = AssertPoisonPage
      r1 == [r0 EXCEPT !.asked = @ \cup (IF poison THEN {"assert_poison"} ELSE {})]
  IN
  IF poison /\ f.assert_poison
  THEN [r1 EXCEPT !.ret = "handled", !.via = "assert_poison"]
  ELSE
  LET thread == RecognizedJavaThread(installed, t)
      r2 == [r1 EXCEPT !.thread = thread]
  IN
  IF SafeFetchHit(f)
  THEN [r2 EXCEPT !.ret = "handled", !.via = "safefetch",
                  !.pc = continuation_for_safefetch_fault(ucontext_get_pc(f)),
                  !.uc = ucontext_set_pc(@, continuation_for_safefetch_fault(
                                              ucontext_get_pc(f))),
                  !.pc_writes = 1]
  ELSE IF f.has_info /\ f.has_uc /\ thread # NoThread
  THEN Classify(plat, thread, f, r2)
  ELSE HandlerTail(f, r2)

\* The run that ends in ThreadCrashProtection's longjmp.
CrashProtectionTaken(f) ==
  [Result(f) EXCEPT !.ret = "longjmp", !.via = "crash_protection",
                    !.asked = {"crash_protected"}]

\* A faulty variant: the SafeFetch lookup made before the crash-protection check.
JVM_handle_bsd_signal_SafeFetch_first(plat, installed, f) ==
  IF ~SafeFetchHit(f) /\ check_crash_protection(f.sig, f.t, f)
  THEN CrashProtectionTaken(f)
  ELSE AfterCrashProtection(plat, installed, f)

JVM_handle_bsd_signal(plat, installed, f) ==
  IF check_crash_protection(f.sig, f.t, f)
  THEN CrashProtectionTaken(f)
  ELSE AfterCrashProtection(plat, installed, f)

(***************************************************************************)
(* The guard-zone operations of JavaThread.  _stack_guard_state records    *)
(* which of the yellow and reserved zones are unguarded; the red zone is   *)
(* unguarded by disable_stack_red_zone and never guarded again.  The       *)
(* enable operations belong to the runtime's unwinding, not to the         *)
(* handler.                                                                *)
(***************************************************************************)
GuardStates == {"stack_guard_enabled", "stack_guard_reserved_disabled",
                "stack_guard_yellow_reserved_disabled"}

GuardOps == {"none", "disable_stack_reserved_zone", "disable_stack_yellow_reserved_zone",
             "disable_stack_red_zone", "enable_stack_reserved_zone",
             "enable_stack_yellow_reserved_zone"}

disable_stack_reserved_zone(g) ==
  IF g = "stack_guard_enabled" THEN "stack_guard_reserved_disabled" ELSE g
disable_stack_yellow_reserved_zone_toggle(g) ==
  IF g = "stack_guard_yellow_reserved_disabled"
  THEN "stack_guard_enabled" ELSE "stack_guard_yellow_reserved_disabled"
disable_stack_yellow_reserved_zone(g) == "stack_guard_yellow_reserved_disabled"
enable_stack_reserved_zone(g) ==
  IF g = "stack_guard_reserved_disabled" THEN "stack_guard_enabled" ELSE g
enable_stack_yellow_reserved_zone(g) == "stack_guard_enabled"

GuardStateAfter(op, g) ==
  CASE op = "disable_stack_reserved_zone" -> disable_stack_reserved_zone(g)
    [] op = "disable_stack_yellow_reserved_zone" -> disable_stack_yellow_reserved_zone(g)
    [] op = "enable_stack_reserved_zone" -> enable_stack_reserved_zone(g)
    [] op = "enable_stack_yellow_reserved_zone" -> enable_stack_yellow_reserved_zone(g)
    [] OTHER -> g
RedZoneAfter(op, red) == red \/ op = "disable_stack_red_zone"

\* The fields of a Java thread the handler can change.
ThreadFields(t) ==
  [guard |-> stack_guard_state[t], red |-> red_zone_disabled[t],
   activation |-> reserved_stack_activation[t], saved_pc |-> saved_exception_pc[t]]
NoFields == [guard |-> "stack_guard_enabled", red |-> FALSE,
             activation |-> NULL, saved_pc |-> NULL]

\* What a thread's previous guard-zone fault of this episode did: the operation
\* and, for the yellow zone, whether the thread was sent to the stack overflow
\* stub.
NoPrev == "none"
Summary(r) ==
  IF r.op = "disable_stack_yellow_reserved_zone"
  THEN IF r.via = "stub" /\ FinalRule(r.stubs) = "stack_overflow"
       THEN "yellow_zone_stack_overflow_stub" ELSE "yellow_zone"
  ELSE r.op
NoDelivery ==
  [valid |-> FALSE, f |-> DefaultFault, r |-> Result(DefaultFault),
   before |-> NoFields, prev |-> NoPrev, nested |-> FALSE, waiting |-> FALSE,
   others |-> [u \in JavaThreads |-> NoFields]]

(***************************************************************************)
(* UnixOperatingSystem.c: the CPU-load queries of the management library.  *)
(* Each query samples a pair of kernel counters (used, total) and answers  *)
(* with the ratio of the deltas against the pair the previous call stored  *)
(* in the static counters.  The bodies are compiled only with __FreeBSD__; *)
(* without it every load query answers -1.  The value returned, a jdouble, *)
(* is a fraction num/den, or what IEEE division by zero gives.             *)
(***************************************************************************)
MaxCalls == 3
MaxTick == 2
MaxProcs == 2

ticks(used, total) == [used |-> used, total |-> total]
ZeroTicks == ticks(0, 0)

\* counters.cpus: NULL, or a table of n entries indexed from 0.
NullTable == [null |-> TRUE, at |-> << >>]
calloc(n) == [null |-> FALSE, at |-> [i \in 0..(n - 1) |-> ZeroTicks]]

\* The static counters before perfInit: zero-initialised storage.
StaticCounters ==
  [nProcs |-> 0, jvmTicks |-> ZeroTicks, cpuTicks |-> ZeroTicks, cpus |-> NullTable]

\* What the system answers in one call: sysctl(HW_NCPU) (its success and
\* value), calloc's success, which of the call's queries fails ("none",
\* "sysctl", "gettimeofday"), and the pair sampled.
NoSample == ticks(-1, -1)
DefaultAnswers ==
  [ncpu_ok |-> TRUE, cpu_val |-> 1, calloc_ok |-> TRUE, failed |-> "none",
   sample |-> NoSample]

jdouble(n) == [kind |-> "value", num |-> n, den |-> 1]
NoValue == [kind |-> "none", num |-> 0, den |-> 0]
\* (jdouble) a / b: the division is made in floating point, where a zero divisor
\* gives NaN (for 0/0) or an infinity.
jdouble_div(a, b) ==
  IF b # 0 THEN [kind |-> "value", num |-> a, den |-> b]
  ELSE IF a = 0 THEN [kind |-> "NaN", num |-> 0, den |-> 0]
  ELSE [kind |-> "Inf", num |-> a, den |-> 0]

\* perfInit: [initialized, counters, ret].  The flag is set whether or not calloc
\* succeeded, and 0 is returned.
perfInit(fb, init, c, in) ==
  IF init THEN [initialized |-> TRUE, counters |-> c, ret |-> 0]
  ELSE
  LET cpu_val == IF ~in.ncpu_ok \/ in.cpu_val < 1 THEN 1 ELSE in.cpu_val
      c1 == [c EXCEPT !.nProcs = cpu_val]
      c2 == IF fb
            THEN [c1 EXCEPT !.jvmTicks = ZeroTicks, !.cpuTicks = ZeroTicks,
                            !.cpus = IF in.calloc_ok THEN calloc(cpu_val)
                                     ELSE NullTable]
            ELSE c1
  IN [initialized |-> TRUE, counters |-> c2, ret |-> 0]

\* The result of a query: the flag and the counters after it, the value returned
\* and the return statement taken.
Returned(init, c, ret, path) ==
  [initialized |-> init, counters |-> c, ret |-> ret, path |-> path]

\* A faulty variant: the first call is the one made with no pair stored, whatever
\* the pair stored holds.
FirstCall_by_flag(b) == b = ZeroTicks
\* "First call": the pair stored holds a zero.
FirstCall(b) == b.used = 0 \/ b.total = 0

getSystemCpuLoad0(fb, init, c, in) ==
  IF ~fb THEN Returned(init, c, jdouble(-1), "not_implemented")
  ELSE
  LET pi == perfInit(fb, init, c, in)
      c0 == pi.counters
      used == in.sample.used
      total == in.sample.total
  IN
  IF pi.ret # 0 THEN Returned(pi.initialized, c0, jdouble(-1), "not_implemented")
  ELSE IF in.failed # "none"
  THEN Returned(pi.initialized, c0, jdouble(-1), "query_failed")
  ELSE IF FirstCall(c0.cpuTicks)
  THEN Returned(pi.initialized, [c0 EXCEPT !.cpuTicks = ticks(used, total)],
                jdouble(0), "first_call")
  ELSE Returned(pi.initialized, [c0 EXCEPT !.cpuTicks = ticks(used, total)],
                jdouble_div(used - c0.cpuTicks.used, total - c0.cpuTicks.total),
                "ratio")

getProcessCpuLoad0(fb, init, c, in) ==
  IF ~fb THEN Returned(init, c, jdouble(-1), "not_implemented")
  ELSE
  LET pi == perfInit(fb, init, c, in)
      c0 == pi.counters
      task_time == in.sample.used
      time == in.sample.total
  IN
  IF pi.ret # 0 THEN Returned(pi.initialized, c0, jdouble(-1), "not_implemented")
  ELSE IF in.failed # "none"
  THEN Returned(pi.initialized, c0, jdouble(-1), "query_failed")
  ELSE IF FirstCall(c0.jvmTicks)
  THEN Returned(pi.initialized, [c0 EXCEPT !.jvmTicks = ticks(task_time, time)],
                jdouble(0), "first_call")
  ELSE IF time - c0.jvmTicks.total = 0
  THEN Returned(pi.initialized, c0, jdouble(-1), "zero_delta")
  ELSE Returned(pi.initialized, [c0 EXCEPT !.jvmTicks = ticks(task_time, time)],
                jdouble_div(task_time - c0.jvmTicks.used, time - c0.jvmTicks.total),
                "ratio")

\* With counters.cpus NULL the read of counters.cpus[cpu_number] is a null
\* dereference: the call does not return.
getSingleCpuLoad0(fb, init, c, in, cpu_number) ==
  IF ~fb THEN Returned(init, c, jdouble(-1), "not_implemented")
  ELSE
  LET pi == perfInit(fb, init, c, in)
      c0 == pi.counters
      used == in.sample.used
      total == in.sample.total
  IN
  IF ~(pi.ret = 0 /\ 0 <= cpu_number /\ cpu_number < c0.nProcs)
  THEN Returned(pi.initialized, c0, jdouble(-1), "out_of_range")
  ELSE IF in.failed # "none"
  THEN Returned(pi.initialized, c0, jdouble(-1), "query_failed")
  ELSE IF c0.cpus.null
  THEN Returned(pi.initialized, c0, NoValue, "null_dereference")
  ELSE IF FirstCall(c0.cpus.at[cpu_number])
  THEN Returned(pi.initialized,
                [c0 EXCEPT !.cpus.at[cpu_number] = ticks(used, total)],
                jdouble(0), "first_call")
  ELSE Returned(pi.initialized,
                [c0 EXCEPT !.cpus.at[cpu_number] = ticks(used, total)],
                jdouble_div(used - c0.cpus.at[cpu_number].used,
                            total - c0.cpus.at[cpu_number].total),
                "ratio")

getHostConfiguredCpuCount0(fb, init, c, in) ==
  LET pi == perfInit(fb, init, c, in) IN
  IF pi.ret = 0
  THEN Returned(pi.initialized, pi.counters, jdouble(pi.counters.nProcs), "count")
  ELSE Returned(pi.initialized, pi.counters, jdouble(-1), "not_implemented")

NoCall ==
  [valid |-> FALSE, fn |-> "none", cpu_number |-> 0, in |-> DefaultAnswers,
   ret |-> NoValue, path |-> "none", before |-> StaticCounters,
   initialized_before |-> FALSE]

(***************************************************************************)
(* os_bsd_aarch64.cpp: _Copy_conjoint_jshorts_atomic,                      *)
(* _Copy_conjoint_jints_atomic and _Copy_conjoint_jlongs_atomic.  The three *)
(* have one body; they differ in the element type.  Memory is an array of  *)
(* elements, a pointer is the index of an element, and pointer and size_t  *)
(* arithmetic wrap at the width of an address.                             *)
(***************************************************************************)
AddressBits == 4
MemSize == 5
MaxCount == 3

Elements == {"jshort", "jint", "jlong"}
sizeof(elem) == CASE elem = "jshort" -> 2 [] elem = "jint" -> 4 [] elem = "jlong" -> 8

\* The elements an array may occupy; 0 is NULL.
Cells == 1..MemSize
\* Memory at the call: every element holds a value of its own.
Contents == [a \in Cells |-> 10 + a]

ptr(a) == a % (2 ^ AddressBits)

\* A faulty variant: the copy always runs forward.
Direction_always_forward(from, to) ==
  IF from # to THEN "forward" ELSE "return"
\* The direction of the copy: 'if (from > to) ... else if (from < to) ...'.
Direction(from, to) ==
  IF from > to THEN "forward" ELSE IF from < to THEN "backward" ELSE "return"

\* A call of one of the routines, not yet entered.
CopyCall(elem, from, to, count) ==
  [elem |-> elem, from0 |-> from, to0 |-> to, count |-> count, from |-> from,
   to |-> to, end |-> from, pc |-> "call", mem |-> Contents, stores |-> << >>]
NoCopy == [CopyCall("jshort", 1, 1, 0) EXCEPT !.pc = "none"]

\* '*(to++) = *(from++)', 'os::atomic_copy64(from++, to++)' and their backward
\* forms: one load and one store of an element, then both pointers move by d.
CopyElement(c, d) ==
  [c EXCEPT !.mem[c.to] = c.mem[c.from],
            !.stores = Append(@, [at |-> c.to, bytes |-> sizeof(c.elem)]),
            !.to = ptr(@ + d), !.from = ptr(@ + d)]

\* Entry: the direction is chosen and the loop's pointers are set up.
Copy_conjoint_enter(c) ==
  LET dir == Direction(c.from, c.to) IN
  IF dir = "forward" THEN [c EXCEPT !.end = ptr(c.from + c.count), !.pc = "forward"]
  ELSE IF dir = "backward"
  THEN [c EXCEPT !.end = c.from, !.from = ptr(@ + ptr(c.count - 1)),
                 !.to = ptr(@ + ptr(c.count - 1)), !.pc = "backward"]
  ELSE [c EXCEPT !.pc = "return"]

\* One test of 'while (from < end)' and the body it guards.
Copy_conjoint_forward(c) ==
  IF c.from < c.end THEN CopyElement(c, 1) ELSE [c EXCEPT !.pc = "return"]

\* One test of 'while (from >= end)' and the body it guards.
Copy_conjoint_backward(c) ==
  IF c.from >= c.end THEN CopyElement(c, -1) ELSE [c EXCEPT !.pc = "return"]

Init ==
  /\ platform \in Platforms
  /\ signal_handlers_are_installed = FALSE
  /\ stack_guard_state = [t \in JavaThreads |-> "stack_guard_enabled"]
  /\ red_zone_disabled = [t \in JavaThreads |-> FALSE]
  /\ reserved_stack_activation = [t \in JavaThreads |-> stack_base(t)]
  /\ saved_exception_pc = [t \in JavaThreads |-> NULL]
  /\ previous = [t \in JavaThreads |-> NoPrev]
  /\ last = NoDelivery
  /\ deliveries = 0
  /\ freebsd = FALSE
  /\ initialized = FALSE
  /\ counters = StaticCounters
  /\ call = NoCall
  /\ calls = 0
  /\ copy = NoCopy

\* os::Bsd::install_signal_handlers sets the flag, once, at startup.
InstallSignalHandlers ==
  /\ ~last.valid
  /\ ~signal_handlers_are_installed
  /\ signal_handlers_are_installed' = TRUE
  /\ UNCHANGED <<platform, stack_guard_state, red_zone_disabled,
                 reserved_stack_activation, saved_exception_pc, previous, last,
                 deliveries>>
  /\ UNCHANGED <<cpu_vars, copy>>

Handle(f) == JVM_handle_bsd_signal(platform, signal_handlers_are_installed, f)

\* The answers the environment can give to question q of the handler's run r: a
\* question the run does not ask keeps its default.
Answers(q, r, answers) == IF q \in r.asked THEN answers ELSE {DefaultFault[q]}
\* The run on fault g, given the run r on fault f.
Rerun(g, f, r) == IF g = f THEN r ELSE Handle(g)

\* JavaThread::doing_unsafe_access is a flag the thread sets around an unsafe
\* access, whether or not the run reads it: drawn for every SIGBUS of a Java
\* thread in native code, elsewhere when the run asks for it.
UnsafeAccessFlags(f, r) ==
  IF f.sig = "SIGBUS" /\ is_Java_thread(f.t) /\ f.thread_state = "_thread_in_native"
  THEN BOOLEAN
  ELSE Answers("doing_unsafe_access", r, BOOLEAN)

MaxGuardPages == 1
Annotations == {"none", "interpreted", "compiled"}

\* The faults a thread can take.  Only a Java thread runs interpreted or compiled
\* code, and only while its state is _thread_in_Java; the JNI fast accessors run
\* in a Java thread whose state is _thread_in_native; SafeFetch is called in any
\* state.  Only a Java thread's faults are tested against a stack.
PcsFor(sig, t, mode) ==
  CASE ~MemoryFault(sig) /\ (~is_Java_thread(t) \/ mode # "_thread_in_Java") -> {NativePc}
    [] sig \in {"SIGILL", "SIGTRAP"} -> {ZombiePc, NmethodBodyPc}
    [] sig = "SIGFPE" -> {InterpreterPc, NmethodBodyPc}
    [] ~MemoryFault(sig) -> {NativePc}
    [] ~is_Java_thread(t) -> ContextPcs \cap NativePcs
    [] mode = "_thread_in_Java" -> ContextPcs \ {ZombiePc, FastAccessorPc}
    [] mode = "_thread_in_native" -> (ContextPcs \cap NativePcs) \cup {FastAccessorPc}
    [] OTHER -> ContextPcs \cap NativePcs
\* The link registers a context can hold: a return address in a compiled
\* caller, and for a compiled method at its stack bang also one in a stub.
LrsFor(pc) ==
  IF pc = NmethodBangPc THEN {ContextLr, StubReturnLr} ELSE {ContextLr}
AddrsFor(t) ==
  IF is_Java_thread(t) THEN FaultAddrs
  ELSE {NullPage, PollPage, AssertPoisonPage, stack_red_zone_base("J1")}

\* The thread fields after the handler's run r, for the thread the handler recognised.
FieldsAfter(r, b) ==
  [guard |-> GuardStateAfter(r.op, b.guard),
   red |-> RedZoneAfter(r.op, b.red),
   activation |-> IF r.set_activation THEN r.activation ELSE b.activation,
   saved_pc |-> IF r.set_saved_pc THEN r.saved_pc ELSE b.saved_pc]

Record(t, f, r) ==
  [valid |-> TRUE, f |-> f, r |-> r,
   before |-> IF is_Java_thread(t) THEN ThreadFields(t) ELSE NoFields,
   prev |-> IF is_Java_thread(t) THEN previous[t] ELSE NoPrev,
   nested |-> FALSE,
   waiting |-> r.blocked,
   others |-> [u \in JavaThreads |-> ThreadFields(u)]]

Run(t, f, r) ==
  LET a == IF r.thread = NoThread THEN NoFields ELSE FieldsAfter(r, ThreadFields(r.thread))
  IN
  /\ last' = Record(t, f, r)
  /\ deliveries' = deliveries + 1
  /\ previous' = IF r.thread # NoThread /\ r.op # "none"
                 THEN [previous EXCEPT ![t] = Summary(r)]
                 ELSE previous
  /\ IF r.thread = NoThread
     THEN UNCHANGED <<stack_guard_state, red_zone_disabled,
                      reserved_stack_activation, saved_exception_pc>>
     ELSE /\ stack_guard_state' = [stack_guard_state EXCEPT ![r.thread] = a.guard]
          /\ red_zone_disabled' = [red_zone_disabled EXCEPT ![r.thread] = a.red]
          /\ reserved_stack_activation' =
               [reserved_stack_activation EXCEPT ![r.thread] = a.activation]
          /\ saved_exception_pc' = [saved_exception_pc EXCEPT ![r.thread] = a.saved_pc]
  /\ UNCHANGED <<platform, signal_handlers_are_installed>>
  /\ UNCHANGED <<cpu_vars, copy>>

\* One delivery of a signal to thread t (NoThread: a thread unknown to the VM).
Deliver(t) ==
  /\ ~last.valid
  /\ deliveries < MaxDeliveries
  /\ \E sig \in Signals, has_info \in BOOLEAN, has_uc \in BOOLEAN :
     \E si_addr \in (IF has_info /\ MemoryFault(sig) THEN AddrsFor(t) ELSE {NULL}),
        si_code \in (IF has_info /\ sig = "SIGFPE" THEN FpeCodes ELSE {"none"}),
        mode \in (IF is_Java_thread(t) THEN ThreadModes ELSE {"_thread_in_native"}) :
     \E pc \in (IF has_uc THEN PcsFor(sig, t, mode) ELSE {NULL}) :
     \E lr \in (IF has_uc THEN LrsFor(pc) ELSE {NULL}) :
     LET f0 == [DefaultFault EXCEPT
                  !.t = t, !.sig = sig, !.has_info = has_info, !.si_addr = si_addr,
                  !.si_code = si_code, !.has_uc = has_uc, !.pc = pc,
                  !.lr = lr,
                  !.sp = IF has_uc THEN ContextSp ELSE NULL,
                  !.fp = IF has_uc THEN ContextFp ELSE NULL,
                  !.x = IF has_uc THEN ContextX ELSE NULL,
                  !.thread_state = mode]
     IN
     \E r0 \in {Handle(f0)} :
     \E cp \in Answers("crash_protected", r0, BOOLEAN) :
     LET f1 == [f0 EXCEPT !.crash_protected = cp] IN
     \E r1 \in {Rerun(f1, f0, r0)} :
     \E ap \in Answers("assert_poison", r1, BOOLEAN) :
     LET f2 == [f1 EXCEPT !.assert_poison = ap] IN
     \E r2 \in {Rerun(f2, f1, r1)} :
     \E gp \in Answers("guard_pages", r2, 0..MaxGuardPages) :
     LET f3 == [f2 EXCEPT !.guard_pages = gp] IN
     \E r3 \in {Rerun(f3, f2, r2)} :
     \E fj \in Answers("first_java_frame", r3, BOOLEAN) :
     LET f4 == [f3 EXCEPT !.first_java_frame = fj] IN
     \E r4 \in {Rerun(f4, f3, r3)} :
     \E an \in Answers("annotated", r4, Annotations) :
     LET f5 == [f4 EXCEPT !.annotated = an] IN
     \E r5 \in {Rerun(f5, f4, r4)} :
     \E ua \in UnsafeAccessFlags(f5, r5) :
     LET f6 == [f5 EXCEPT !.doing_unsafe_access = ua] IN
     \E r6 \in {Rerun(f6, f5, r5)} :
     \E ch \in Answers("chained", r6, BOOLEAN) :
     LET f7 == [f6 EXCEPT !.chained = ch] IN
     \E r7 \in {Rerun(f7, f6, r6)} :
     \E ab \in Answers("abort_if_unrecognized", r7, BOOLEAN) :
     LET f8 == [f7 EXCEPT !.abort_if_unrecognized = ab] IN
     \E r8 \in {Rerun(f8, f7, r7)} :
       Run(t, f8, r8)

\* A nested fault: thread t faults again inside the handler, after the outer
\* invocation (last) has called its guard-zone operation and before it goes on.
\* The handler runs on the new fault from its first statement and returns into
\* the outer invocation, which then completes: what the outer invocation writes
\* after its guard-zone operation (reserved-stack activation, saved exception pc)
\* is written last.  The fault is one on the thread's guard zones, taken at a pc
\* of the handler's own code in the thread state of the outer fault.  An answer
\* of the environment the run does not ask for keeps its default.
NestedAddrs(t, guard_pages) ==
  {a \in FaultAddrs : \/ in_stack_yellow_reserved_zone(t, a - guard_pages)
                      \/ in_stack_red_zone(t, a - guard_pages)}

RunNested(t, f, r) ==
  LET outer == last.r
      b == ThreadFields(t)
      a == FieldsAfter(r, b)
  IN
  /\ last' = [Record(t, f, r) EXCEPT !.nested = TRUE]
  /\ deliveries' = deliveries + 1
  /\ previous' = IF r.op # "none" THEN [previous EXCEPT ![t] = Summary(r)] ELSE previous
  /\ stack_guard_state' = [stack_guard_state EXCEPT ![t] = a.guard]
  /\ red_zone_disabled' = [red_zone_disabled EXCEPT ![t] = a.red]
  /\ reserved_stack_activation' =
       [reserved_stack_activation EXCEPT
          ![t] = IF outer.set_activation THEN b.activation ELSE a.activation]
  /\ saved_exception_pc' =
       [saved_exception_pc EXCEPT
          ![t] = IF outer.set_saved_pc THEN b.saved_pc ELSE a.saved_pc]
  /\ UNCHANGED <<platform, signal_handlers_are_installed>>
  /\ UNCHANGED <<cpu_vars, copy>>

NestedFault(t) ==
  /\ last.valid
  /\ ~last.nested
  /\ last.r.thread = t
  /\ last.r.op # "none"
  /\ deliveries < MaxDeliveries
  /\ \E sig \in {"SIGSEGV", "SIGBUS"}, si_addr \in NestedAddrs(t, last.f.guard_pages) :
     \E ua \in BOOLEAN, ch \in BOOLEAN, ab \in BOOLEAN :
     LET f == [DefaultFault EXCEPT
                 !.t = t, !.sig = sig, !.has_info = TRUE, !.si_addr = si_addr,
                 !.has_uc = TRUE, !.pc = NativePc, !.lr = ContextLr,
                 !.sp = ContextSp, !.fp = ContextFp, !.x = ContextX,
                 !.thread_state = last.f.thread_state,
                 !.guard_pages = last.f.guard_pages,
                 !.doing_unsafe_access = ua, !.chained = ch,
                 !.abort_if_unrecognized = ab]
     IN
     \E r \in {Handle(f)} :
       /\ ua \in UnsafeAccessFlags(f, r)
       /\ ch \in Answers("chained", r, BOOLEAN)
       /\ ab \in Answers("abort_if_unrecognized", r, BOOLEAN)
       /\ RunNested(t, f, r)

\* The run ended the process: VMError::report_and_die or Unimplemented().
Terminated(r) == r.ret \in {"fatal", "unimplemented"}

\* A concurrent fault: while the delivery of another thread is in flight, Java
\* thread t takes a fault of its own in compiled Java code and the handler runs on
\* t.  The fault address is in t's yellow zone, in t's red zone, or in the yellow
\* zone of the other Java thread's stack.  An answer of the environment the run
\* does not ask for keeps its default.
ConcurrentAddrs(t, guard_pages) ==
  {stack_red_zone_base(t) + guard_pages, stack_end(t) + guard_pages}
    \cup {stack_red_zone_base(u) : u \in JavaThreads \ {t}}

ConcurrentFault(t) ==
  /\ last.valid
  /\ ~last.waiting
  /\ ~Terminated(last.r)
  /\ last.f.t # t
  /\ deliveries < MaxDeliveries
  /\ \E gp \in 0..MaxGuardPages, ch \in BOOLEAN, ab \in BOOLEAN :
     \E si_addr \in ConcurrentAddrs(t, gp) :
     LET f == [DefaultFault EXCEPT
                 !.t = t, !.sig = "SIGSEGV", !.has_info = TRUE, !.si_addr = si_addr,
                 !.has_uc = TRUE, !.pc = NmethodBodyPc, !.lr = ContextLr,
                 !.sp = ContextSp, !.fp = ContextFp, !.x = ContextX,
                 !.thread_state = "_thread_in_Java",
                 !.guard_pages = gp, !.chained = ch,
                 !.abort_if_unrecognized = ab]
     IN
     \E r \in {Handle(f)} :
       /\ gp \in Answers("guard_pages", r, 0..MaxGuardPages)
       /\ ch \in Answers("chained", r, BOOLEAN)
       /\ ab \in Answers("abort_if_unrecognized", r, BOOLEAN)
       /\ Run(t, f, r)

\* The runtime unwinds thread t's stack below its guard zones and guards the
\* yellow and reserved zones again: the end of a stack-growth episode.
Unwind(t) ==
  /\ ~last.valid
  /\ stack_guard_state[t] # "stack_guard_enabled"
  /\ stack_guard_state' =
       [stack_guard_state EXCEPT ![t] = enable_stack_yellow_reserved_zone(@)]
  /\ reserved_stack_activation' = [reserved_stack_activation EXCEPT ![t] = stack_base(t)]
  /\ previous' = [previous EXCEPT ![t] = NoPrev]
  /\ UNCHANGED <<platform, signal_handlers_are_installed, red_zone_disabled,
                 saved_exception_pc, last, deliveries>>
  /\ UNCHANGED <<cpu_vars, copy>>

\* The handler waits in os::block_on_serialize_page_trap (last.waiting) until the
\* cooperating thread has restored the serialize page's protection; then the call
\* returns and the handler returns true.
RestoreSerializePage ==
  /\ last.valid
  /\ last.waiting
  /\ last' = [last EXCEPT !.waiting = FALSE]
  /\ UNCHANGED <<platform, signal_handlers_are_installed, stack_guard_state,
                 red_zone_disabled, reserved_stack_activation, saved_exception_pc,
                 previous, deliveries>>
  /\ UNCHANGED <<cpu_vars, copy>>

\* The handler has returned (or jumped to the crash-protection point) and the
\* thread runs on.  After the fatal report the process is gone: nothing follows.
Resume ==
  /\ last.valid
  /\ ~last.waiting
  /\ ~Terminated(last.r)
  /\ last' = NoDelivery
  /\ UNCHANGED <<platform, signal_handlers_are_installed, stack_guard_state,
                 red_zone_disabled, reserved_stack_activation, saved_exception_pc,
                 previous, deliveries>>
  /\ UNCHANGED <<cpu_vars, copy>>

FaultingThreads == {"J1", VMThread, NoThread}

Next ==
  \/ InstallSignalHandlers
  \/ \E t \in FaultingThreads : Deliver(t)
  \/ \E t \in JavaThreads : NestedFault(t)
  \/ ConcurrentFault("J2")
  \/ \E t \in JavaThreads : Unwind(t)
  \/ RestoreSerializePage
  \/ Resume

Spec == Init /\ [][Next]_vars

\* The cooperating thread restores the serialize page's protection after it has
\* revoked it: a handler that waits for the page is eventually let go.
LiveSpec == Spec /\ WF_vars(RestoreSerializePage)

(***************************************************************************)
(* The CPU-load queries as called from Java, one call at a time (the       *)
(* counters are static and the calls are made under the caller's lock).    *)
(***************************************************************************)
\* What sysctl(HW_NCPU) and calloc may answer in perfInit; one answer when they
\* are not called.
PerfInitAnswers(fb, init) ==
  IF init THEN {DefaultAnswers}
  ELSE {a \in {[DefaultAnswers EXCEPT !.ncpu_ok = o, !.cpu_val = v, !.calloc_ok = k] :
                 o \in BOOLEAN, v \in 0..MaxProcs,
                 k \in IF fb THEN BOOLEAN ELSE {TRUE}} :
          a.ncpu_ok \/ a.cpu_val = 1}

\* The pairs a query may sample after the pair b was sampled: the kernel's
\* counters do not decrease.  kern.cp_times holds zeros for a CPU that is absent
\* or has not run; the system-wide counters and the process's times are positive.
Samples(fn, b) ==
  LET lo == IF fn = "getSingleCpuLoad0" THEN 0 ELSE 1 IN
  {s \in [used : lo..MaxTick, total : lo..MaxTick] :
     /\ s.used >= b.used
     /\ s.total >= b.total
     /\ fn # "getProcessCpuLoad0" =>
          /\ s.used <= s.total
          /\ s.total - s.used >= b.total - b.used}

\* The pair stored for the query, once perfInit has run.
Baseline(c, fn, cpu_number) ==
  IF fn = "getSystemCpuLoad0" THEN c.cpuTicks
  ELSE IF fn = "getProcessCpuLoad0" THEN c.jvmTicks
  ELSE IF ~c.cpus.null /\ cpu_number \in DOMAIN c.cpus.at THEN c.cpus.at[cpu_number]
  ELSE ZeroTicks

\* What the system may answer in one call of fn.
CallAnswers(fn, cpu_number) ==
  UNION {
    LET c0 == perfInit(freebsd, initialized, counters, a).counters
        queries == /\ freebsd
                   /\ fn # "getHostConfiguredCpuCount0"
                   /\ fn = "getSingleCpuLoad0" =>
                        0 <= cpu_number /\ cpu_number < c0.nProcs
    IN
    IF ~queries THEN {a}
    ELSE {[a EXCEPT !.failed = "sysctl"]}
         \cup (IF fn = "getProcessCpuLoad0"
               THEN {[a EXCEPT !.failed = "gettimeofday"]} ELSE {})
         \cup {[a EXCEPT !.sample = s] : s \in Samples(fn, Baseline(c0, fn, cpu_number))}
    : a \in IF freebsd \/ fn = "getHostConfiguredCpuCount0"
             THEN PerfInitAnswers(freebsd, initialized) ELSE {DefaultAnswers}}

\* A call can be made: the process has not ended in an earlier call.
CanCall ==
  /\ calls < MaxCalls
  /\ call.path # "null_dereference"

Called(fn, cpu_number, in, out) ==
  /\ initialized' = out.initialized
  /\ counters' = out.counters
  /\ call' = [valid |-> TRUE, fn |-> fn, cpu_number |-> cpu_number, in |-> in,
              ret |-> out.ret, path |-> out.path, before |-> counters,
              initialized_before |-> initialized]
  /\ calls' = calls + 1
  /\ UNCHANGED freebsd
  /\ UNCHANGED <<handler_vars, copy>>

SystemCpuLoad ==
  /\ CanCall
  /\ \E in \in CallAnswers("getSystemCpuLoad0", 0) :
       Called("getSystemCpuLoad0", 0, in,
              getSystemCpuLoad0(freebsd, initialized, counters, in))

ProcessCpuLoad ==
  /\ CanCall
  /\ \E in \in CallAnswers("getProcessCpuLoad0", 0) :
       Called("getProcessCpuLoad0", 0, in,
              getProcessCpuLoad0(freebsd, initialized, counters, in))

SingleCpuLoad ==
  /\ CanCall
  /\ \E cpu_number \in -1..MaxProcs :
     \E in \in CallAnswers("getSingleCpuLoad0", cpu_number) :
       Called("getSingleCpuLoad0", cpu_number, in,
              getSingleCpuLoad0(freebsd, initialized, counters, in, cpu_number))

HostConfiguredCpuCount ==
  /\ CanCall
  /\ \E in \in CallAnswers("getHostConfiguredCpuCount0", 0) :
       Called("getHostConfiguredCpuCount0", 0, in,
              getHostConfiguredCpuCount0(freebsd, initialized, counters, in))

CpuInit ==
  /\ platform = "bsd"
  /\ signal_handlers_are_installed = FALSE
  /\ stack_guard_state = [t \in JavaThreads |-> "stack_guard_enabled"]
  /\ red_zone_disabled = [t \in JavaThreads |-> FALSE]
  /\ reserved_stack_activation = [t \in JavaThreads |-> stack_base(t)]
  /\ saved_exception_pc = [t \in JavaThreads |-> NULL]
  /\ previous = [t \in JavaThreads |-> NoPrev]
  /\ last = NoDelivery
  /\ deliveries = 0
  /\ freebsd \in BOOLEAN
  /\ initialized = FALSE
  /\ counters = StaticCounters
  /\ call = NoCall
  /\ calls = 0
  /\ copy = NoCopy

CpuNext ==
  \/ SystemCpuLoad
  \/ ProcessCpuLoad
  \/ SingleCpuLoad
  \/ HostConfiguredCpuCount

CpuSpec == CpuInit /\ [][CpuNext]_vars

(***************************************************************************)
(* One call of a conjoint copy routine, a loop iteration at a time.        *)
(***************************************************************************)
CopyEnter ==
  /\ copy.pc = "call"
  /\ copy' = Copy_conjoint_enter(copy)
  /\ UNCHANGED <<handler_vars, cpu_vars>>

CopyForward ==
  /\ copy.pc = "forward"
  /\ copy' = Copy_conjoint_forward(copy)
  /\ UNCHANGED <<handler_vars, cpu_vars>>

CopyBackward ==
  /\ copy.pc = "backward"
  /\ copy' = Copy_conjoint_backward(copy)
  /\ UNCHANGED <<handler_vars, cpu_vars>>

\* The calls: any element type, any count, and any two arrays of count elements
\* in memory.
CopyInit ==
  /\ platform \in Platforms
  /\ signal_handlers_are_installed = FALSE
  /\ stack_guard_state = [t \in JavaThreads |-> "stack_guard_enabled"]
  /\ red_zone_disabled = [t \in JavaThreads |-> FALSE]
  /\ reserved_stack_activation = [t \in JavaThreads |-> stack_base(t)]
  /\ saved_exception_pc = [t \in JavaThreads |-> NULL]
  /\ previous = [t \in JavaThreads |-> NoPrev]
  /\ last = NoDelivery
  /\ deliveries = 0
  /\ freebsd = FALSE
  /\ initialized = FALSE
  /\ counters = StaticCounters
  /\ call = NoCall
  /\ calls = 0
  /\ \E elem \in Elements, count \in 0..MaxCount, from \in Cells, to \in Cells :
       /\ from + count <= MemSize + 1
       /\ to + count <= MemSize + 1
       /\ copy = CopyCall(elem, from, to, count)

CopyNext ==
  \/ CopyEnter
  \/ CopyForward
  \/ CopyBackward

CopySpec == CopyInit /\ [][CopyNext]_vars

(***************************************************************************)
(* Properties.  In a state where last.valid holds the handler has just run *)
(* on the fault last.f with the result last.r; last.before holds the       *)
(* faulting thread's fields before the run and the thread's variables hold *)
(* them after it.                                                          *)
(***************************************************************************)
Delivered == last.valid
Fault == last.f
Ran == last.r
Before == last.before
After == IF is_Java_thread(Fault.t) THEN ThreadFields(Fault.t) ELSE NoFields
ZonesUnchanged == After.guard = Before.guard /\ After.red = Before.red
\* Java thread u has the fields it had when the delivery began.
Untouched(u) == ThreadFields(u) = last.others[u]

\* A fault the handler classifies: taken by a Java thread the handler knows, with
\* info and context, at a pc that is no SafeFetch load.
JavaFault ==
  /\ Delivered
  /\ signal_handlers_are_installed
  /\ is_Java_thread(Fault.t)
  /\ Fault.has_info
  /\ Fault.has_uc
  /\ ~is_safefetch_fault(Fault.pc)
InJava == Fault.thread_state = "_thread_in_Java"

\* The signals and the address the build's stack overflow code works on.
StackSignal ==
  Fault.sig = "SIGSEGV" \/ (platform = "apple" /\ Fault.sig = "SIGBUS")
StackAddress ==
  IF platform = "bsd" THEN Fault.si_addr - Fault.guard_pages ELSE Fault.si_addr

----------------------------------------------------------------------------
C1_SafeFetchFault ==
  Delivered /\ MemoryFault(Fault.sig) /\ Fault.has_uc /\ is_safefetch_fault(Fault.pc)
C1_Resumed ==
  /\ Ran.ret = "handled"
  /\ Ran.via = "safefetch"
  /\ Ran.pc = continuation_for_safefetch_fault(Fault.pc)
  /\ Ran.pc_writes = 1
  /\ Ran.op = "none"
  /\ ZonesUnchanged

\* C1 as stated: a SIGSEGV or SIGBUS with a context whose pc is a SafeFetch fault
\* pc returns handled with the pc rewritten to the resume pc, whatever the thread,
\* its mode, the fault address and the guard-zone state, and leaves the zones alone.
C1_SafeFetch_AsStated == C1_SafeFetchFault => C1_Resumed

\* C1, amended: a SIGSEGV or SIGBUS with a context whose pc is a SafeFetch fault pc
\* returns handled with the pc rewritten to the resume pc and the guard zones
\* unchanged, whatever the thread, mode, address and zone state, unless crash
\* protection unwinds the thread first or the assertion-poison filter takes the fault.
C1_SafeFetch ==
  C1_SafeFetchFault /\ ~Fault.crash_protected /\ ~Fault.assert_poison => C1_Resumed

\* A Java thread in Java code probing an address of its own yellow zone.
C1_SafeFetch_Witness ==
  /\ C1_SafeFetchFault
  /\ signal_handlers_are_installed
  /\ Fault.t = "J1"
  /\ InJava
  /\ Fault.has_info
  /\ in_stack_yellow_reserved_zone("J1", Fault.si_addr)
  /\ Ran.pc = SafeFetch32FaultPc + instruction_size

----------------------------------------------------------------------------
C2_RedZoneFault ==
  /\ JavaFault
  /\ MemoryFault(Fault.sig)
  /\ in_stack_red_zone(Fault.t, Fault.si_addr)
  /\ Before.guard = "stack_guard_yellow_reserved_disabled"

\* C2 as stated: a fault at a red-zone address of the faulting Java thread's stack,
\* taken with the yellow zone already disabled, disables the red zone and ends in
\* the fatal report, for every signal, mode, code blob, chained-handler answer and
\* abort_if_unrecognized: never a stub, never handled, never unhandled.
C2_RedZoneFatal_AsStated ==
  C2_RedZoneFault =>
    /\ Ran.op = "disable_stack_red_zone"
    /\ Ran.ret = "fatal"
    /\ Ran.stubs = << >>
    /\ Ran.pc = Fault.pc

----------------------------------------------------------------------------
C3_YellowZoneStub ==
  /\ Ran.op = "disable_stack_yellow_reserved_zone"
  /\ After.guard = "stack_guard_yellow_reserved_disabled"
  /\ Ran.ret = "handled"
  /\ Ran.via = "stub"
  /\ Ran.pc = continuation_for_implicit_exception(Fault.pc, "STACK_OVERFLOW")
  /\ Ran.pc_writes = 1

\* C3 as stated: for a Java thread in Java code, a fault whose address is inside the
\* thread's yellow zone and for which no annotated frame is found disables the
\* yellow zone and returns handled with the pc at the stack overflow stub.
C3_YellowZone_AsStated ==
  /\ JavaFault
  /\ InJava
  /\ MemoryFault(Fault.sig)
  /\ in_stack_yellow_reserved_zone(Fault.t, Fault.si_addr)
  /\ Fault.annotated = "none"
  => C3_YellowZoneStub

C3_YellowZoneFault ==
  /\ JavaFault
  /\ InJava
  /\ StackSignal
  /\ in_stack_yellow_reserved_zone(Fault.t, StackAddress)
  /\ Fault.annotated = "none"

\* C3, amended: for a Java thread in Java code, a SIGSEGV (in the macOS build a
\* SIGBUS too) whose fault address, in the BSD build lowered by the kernel's stack
\* guard pages, is inside the thread's yellow or reserved zone and for which no
\* annotated frame is found disables the yellow zone and returns handled with the
\* pc at the stack overflow stub.
C3_YellowZone == C3_YellowZoneFault => C3_YellowZoneStub

\* The handler looked for an annotated frame from a compiled method's stack bang
\* and found none.
C3_YellowZone_Witness ==
  /\ C3_YellowZoneFault
  /\ in_stack_reserved_zone(Fault.t, StackAddress)
  /\ Fault.pc = NmethodBangPc
  /\ "annotated" \in Ran.asked
  /\ Before.guard = "stack_guard_enabled"
  /\ Ran.pc = StackOverflowStub

----------------------------------------------------------------------------
C4_ReservedZoneFault ==
  /\ JavaFault
  /\ InJava
  /\ MemoryFault(Fault.sig)
  /\ in_stack_reserved_zone(Fault.t, Fault.si_addr)
  /\ Fault.annotated # "none"

\* C4: for a Java thread in Java code, a fault in the reserved zone for which an
\* annotated frame is found disables the reserved zone only, records the
\* activation (fp + interpreter_frame_initial_sp_offset of an interpreted
\* activation, the unextended sp otherwise) and returns handled with the pc as it was.
C4_ReservedZone ==
  C4_ReservedZoneFault =>
    /\ Ran.op = "disable_stack_reserved_zone"
    /\ After.guard = (IF Before.guard = "stack_guard_enabled"
                      THEN "stack_guard_reserved_disabled" ELSE Before.guard)
    /\ After.red = Before.red
    /\ After.activation =
         (IF Fault.annotated = "interpreted"
          THEN InterpretedActivation.fp + interpreter_frame_initial_sp_offset
          ELSE CompiledActivation.sp)
    /\ After.saved_pc = Before.saved_pc
    /\ Ran.ret = "handled"
    /\ Ran.pc = Fault.pc
    /\ Ran.pc_writes = 0
    /\ Ran.stubs = << >>

\* An interpreted activation found from the interpreter's stack bang.
C4_ReservedZone_Witness ==
  /\ C4_ReservedZoneFault
  /\ Fault.annotated = "interpreted"
  /\ Fault.pc = InterpreterPc
  /\ Before.guard = "stack_guard_enabled"
  /\ After.guard = "stack_guard_reserved_disabled"

----------------------------------------------------------------------------
\* C5: SIGPIPE and SIGXFSZ always return handled, for every info, context, thread,
\* mode and chained-handler answer: the chained handler is offered the signal
\* first, the pc is not rewritten, no guard zone changes, nothing is fatal.
C5_Ignorable ==
  Delivered /\ Fault.sig \in {"SIGPIPE", "SIGXFSZ"} =>
    /\ Ran.ret = "handled"
    /\ Ran.via = "ignorable"
    /\ Ran.chain_calls = 1
    /\ "chained" \in Ran.asked
    /\ Ran.pc = Fault.pc
    /\ Ran.pc_writes = 0
    /\ Ran.op = "none"
    /\ ZonesUnchanged
    /\ After = Before

\* SIGXFSZ on a thread unknown to the VM, without info and context, declined by
\* the chained handler.
C5_Ignorable_Witness ==
  /\ Delivered
  /\ Fault.sig = "SIGXFSZ"
  /\ Fault.t = NoThread
  /\ ~Fault.has_info
  /\ ~Fault.has_uc
  /\ ~Fault.chained
  /\ Ran.ret = "handled"

----------------------------------------------------------------------------
C6_PollStub ==
  /\ Ran.ret = "handled"
  /\ Ran.via = "stub"
  /\ Ran.pc = get_poll_stub(Fault.pc)
  /\ Ran.pc_writes = 1
  /\ Ran.stubs = << [rule |-> "poll", stub |-> get_poll_stub(Fault.pc)] >>

\* C6 as stated: a SIGSEGV or SIGBUS at the poll address taken by a Java thread in
\* Java code returns handled with the pc rewritten once to the poll stub; no
\* unsafe-access, null-check or later rule decides instead.
C6_Poll_AsStated ==
  JavaFault /\ InJava /\ MemoryFault(Fault.sig) /\ is_poll_address(Fault.si_addr)
  => C6_PollStub

C6_PollFault ==
  /\ JavaFault
  /\ InJava
  /\ Fault.sig = "SIGSEGV" \/ (platform = "apple" /\ Fault.sig = "SIGBUS")
  /\ is_poll_address(Fault.si_addr)

\* C6, amended: a SIGSEGV (in the macOS build a SIGBUS too) at the poll address
\* taken by a Java thread in Java code returns handled with the pc rewritten once
\* to the poll stub, the only stub any rule of the run assigns.
C6_Poll == C6_PollFault => C6_PollStub

\* A bus fault at the poll address from an nmethod that has unsafe accesses.
C6_Poll_Witness ==
  /\ C6_PollFault
  /\ Fault.sig = "SIGBUS"
  /\ Fault.pc = NmethodBangPc
  /\ Ran.pc = PollStub

----------------------------------------------------------------------------
C7_DivideFault ==
  /\ Delivered
  /\ Fault.sig = "SIGFPE"
  /\ Fault.si_code \in {"FPE_INTDIV", "FPE_FLTDIV"}

\* C7: a SIGFPE with code FPE_INTDIV or FPE_FLTDIV taken by a Java thread in Java
\* code returns handled with the pc at the division stub; taken in native code it
\* is given no stub and goes to the chained handler, then to the unhandled return
\* or the fatal report.
C7_DivideByZero ==
  /\ C7_DivideFault /\ JavaFault /\ InJava =>
       /\ Ran.ret = "handled"
       /\ Ran.via = "stub"
       /\ Ran.pc = continuation_for_implicit_exception(Fault.pc, "IMPLICIT_DIVIDE_BY_ZERO")
       /\ Ran.pc_writes = 1
  /\ C7_DivideFault /\ Fault.thread_state = "_thread_in_native" =>
       /\ Ran.stubs = << >>
       /\ Ran.pc = Fault.pc
       /\ Ran.pc_writes = 0
       /\ Ran.chain_calls = 1
       /\ Ran.via \in {"chain", "unhandled", "fatal"}

\* A floating point division in the interpreter.
C7_DivideByZero_Witness ==
  /\ C7_DivideFault
  /\ JavaFault
  /\ InJava
  /\ Fault.si_code = "FPE_FLTDIV"
  /\ Fault.pc = InterpreterPc
  /\ Ran.pc = DivideByZeroStub + instruction_size

----------------------------------------------------------------------------
\* The place of a guard-zone operation in the order Normal, YellowDisabled,
\* ReservedDisabled, RedDisabled.
StatedRank(op) ==
  CASE op \in {"disable_stack_yellow_reserved_zone", "yellow_zone",
               "yellow_zone_stack_overflow_stub"} -> 1
    [] op = "disable_stack_reserved_zone" -> 2
    [] op = "disable_stack_red_zone" -> 3
    [] OTHER -> 0
\* The place of _stack_guard_state in the order the handler moves it along.
GuardRank(g) ==
  CASE g = "stack_guard_enabled" -> 0
    [] g = "stack_guard_reserved_disabled" -> 1
    [] OTHER -> 2

\* C8 as stated: within one episode the zone state moves only forward along Normal,
\* YellowDisabled, ReservedDisabled, RedDisabled: no delivery's zone operation
\* comes earlier in that order than the one before it (no yellow disable after a
\* reserved disable).  Stated for the runs that find the red zone guarded.
C8_Monotonic_AsStated ==
  Delivered /\ ~Before.red /\ Ran.op # "none" /\ last.prev # NoPrev =>
    StatedRank(Ran.op) >= StatedRank(last.prev)

\* C8, amended: within one episode the handler moves _stack_guard_state only
\* forward along enabled, reserved disabled, yellow and reserved disabled, and
\* the red zone only from guarded to unguarded.
C8_Monotonic ==
  Delivered /\ is_Java_thread(Fault.t) =>
    /\ GuardRank(After.guard) >= GuardRank(Before.guard)
    /\ Before.red => After.red

\* A yellow disable that follows a reserved disable.
C8_Monotonic_Witness ==
  /\ Delivered
  /\ last.prev = "disable_stack_reserved_zone"
  /\ Ran.op = "disable_stack_yellow_reserved_zone"
  /\ Before.guard = "stack_guard_reserved_disabled"
  /\ After.guard = "stack_guard_yellow_reserved_disabled"

----------------------------------------------------------------------------
YellowDisabled(x) == x.guard = "stack_guard_yellow_reserved_disabled"
ReservedDisabled(x) == x.guard # "stack_guard_enabled"

\* C9: the handler never re-enables a guard zone: the only guard-zone operations
\* of a run are the three disable operations, and a zone disabled before a
\* delivery is disabled after it.
C9_NeverReenables ==
  Delivered =>
    /\ Ran.op \in {"none", "disable_stack_reserved_zone",
                   "disable_stack_yellow_reserved_zone", "disable_stack_red_zone"}
    /\ YellowDisabled(Before) => YellowDisabled(After)
    /\ ReservedDisabled(Before) => ReservedDisabled(After)
    /\ Before.red => After.red

\* A reserved disable asked for with the yellow zone already disabled.
C9_NeverReenables_Witness ==
  /\ Delivered
  /\ YellowDisabled(Before)
  /\ Ran.op = "disable_stack_reserved_zone"
  /\ YellowDisabled(After)

----------------------------------------------------------------------------
C10_OnlyRedZone ==
  /\ Ran.op = "disable_stack_red_zone"
  /\ \A i \in DOMAIN Ran.stubs : Ran.stubs[i].rule # "stack_overflow"
  /\ After.guard = Before.guard
  /\ ~Before.red
  /\ After.red

\* C10 as stated: after a yellow-zone fault sent to the stack overflow stub, a
\* fault at a red-zone address does red-zone handling only: no yellow disable, no
\* stack overflow stub, and a zone state strictly later than before it.
C10_YellowThenRed_AsStated ==
  /\ JavaFault
  /\ MemoryFault(Fault.sig)
  /\ last.prev = "yellow_zone_stack_overflow_stub"
  /\ in_stack_red_zone(Fault.t, Fault.si_addr)
  => C10_OnlyRedZone

C10_SecondFault ==
  /\ JavaFault
  /\ StackSignal
  /\ last.prev = "yellow_zone_stack_overflow_stub"
  /\ in_stack_red_zone(Fault.t, StackAddress)
  /\ ~Before.red

\* C10, amended: after a yellow-zone fault sent to the stack overflow stub, a
\* SIGSEGV (in the macOS build a SIGBUS too) whose address, in the BSD build
\* lowered by the kernel's stack guard pages, is in the still guarded red zone
\* does red-zone handling only: no yellow disable, no stack overflow stub, and
\* the red zone disabled on top of the yellow zone.
C10_YellowThenRed == C10_SecondFault => C10_OnlyRedZone

\* The second fault ends in the fatal report.
C10_YellowThenRed_Witness ==
  /\ C10_SecondFault
  /\ Before.guard = "stack_guard_yellow_reserved_disabled"
  /\ Ran.ret = "fatal"

-----------------------------------------------------------------------------
C11_Protected == Delivered /\ check_crash_protection(Fault.sig, Fault.t, Fault)

C11_NothingElseRan ==
  /\ Ran.ret = "longjmp"
  /\ Ran.via = "crash_protection"
  /\ Ran.asked = {"crash_protected"}
  /\ Ran.thread = NoThread
  /\ Ran.op = "none"
  /\ Ran.stubs = << >>
  /\ ~Ran.set_saved_pc
  /\ ~Ran.set_activation
  /\ ~Ran.blocked
  /\ Ran.chain_calls = 0

\* C11: when the faulting thread has a crash-protected region installed that
\* takes the fault, control goes to the saved point before the ignorable-signal
\* filter, the SafeFetch lookup, guard-zone handling, any stub rule, the chained
\* handler or the fatal report runs, and the delivery changes neither the
\* context's pc nor any guard-zone state.
C11_CrashProtectionFirst ==
  [][~last.valid /\ C11_Protected' =>
       /\ C11_NothingElseRan'
       /\ Ran'.pc = Fault'.pc
       /\ Ran'.pc_writes = 0
       /\ UNCHANGED <<stack_guard_state, red_zone_disabled,
                      reserved_stack_activation, saved_exception_pc>>]_vars

\* The protected thread faults at a SafeFetch fault pc, which the lookup made
\* later in the handler would have resumed.
C11_CrashProtectionFirst_Witness ==
  /\ C11_Protected
  /\ is_safefetch_fault(Fault.pc)
  /\ Fault.has_uc
  /\ Ran.ret = "longjmp"

-----------------------------------------------------------------------------
\* C12 as stated: for a SIGSEGV or SIGBUS at a SafeFetch fault pc the SafeFetch
\* lookup decides the outcome and no other check is evaluated before it.
C12_SafeFetchPriority_AsStated ==
  C1_SafeFetchFault => Ran.via = "safefetch" /\ Ran.asked = {}

\* C12, amended: for a SIGSEGV or SIGBUS at a SafeFetch fault pc only the crash
\* protection check and the assertion-poison filter come before the SafeFetch
\* lookup and can decide the outcome; guard-zone handling, every stub rule, the
\* serialize-page rule, the chained handler and the fatal report are never
\* reached.
C12_SafeFetchPriority ==
  C1_SafeFetchFault =>
    /\ Ran.via \in {"crash_protection", "assert_poison", "safefetch"}
    /\ Ran.asked \subseteq {"crash_protected", "assert_poison"}
    /\ Ran.op = "none"
    /\ Ran.stubs = << >>
    /\ ~Ran.blocked
    /\ Ran.chain_calls = 0
    /\ Ran.ret # "fatal"

\* A Java thread in Java code faults at SafeFetchN's fault pc on the null page,
\* where the implicit null rule would otherwise choose a stub.
C12_SafeFetchPriority_Witness ==
  /\ C1_SafeFetchFault
  /\ signal_handlers_are_installed
  /\ Fault.t = "J1"
  /\ InJava
  /\ Fault.has_info
  /\ Fault.si_addr = NullPage
  /\ Fault.pc = SafeFetchNFaultPc
  /\ Ran.via = "safefetch"

-----------------------------------------------------------------------------
\* The delivery left the handler neither through an early return nor through a
\* stub: it reached the chained handler.
C13_TailReached ==
  /\ Delivered
  /\ Ran.via \notin {"crash_protection", "ignorable", "assert_poison", "safefetch",
                     "reserved_zone", "yellow_zone", "serialize_page", "stub",
                     "unimplemented"}

-----------------------------------------------------------------------------
C14_Resumed ==
  /\ Ran.op = "disable_stack_yellow_reserved_zone"
  /\ After.guard = "stack_guard_yellow_reserved_disabled"
  /\ After.red = Before.red
  /\ Ran.ret = "handled"
  /\ Ran.via = "yellow_zone"
  /\ Ran.pc = Fault.pc
  /\ Ran.pc_writes = 0
  /\ ~Ran.set_saved_pc
  /\ After.saved_pc = Before.saved_pc
  /\ ~Ran.set_activation
  /\ Ran.stubs = << >>
  /\ ~Ran.blocked
  /\ Ran.chain_calls = 0
  /\ Ran.asked \subseteq {"guard_pages"}

\* C14 as stated: a fault whose address is inside the yellow zone of a Java thread
\* that is in the runtime or in native code disables the yellow zone and returns
\* handled with the pc and the saved exception pc untouched and no later rule or
\* chained handler consulted.
C14_RuntimeYellowZone_AsStated ==
  /\ JavaFault
  /\ ~InJava
  /\ MemoryFault(Fault.sig)
  /\ in_stack_yellow_reserved_zone(Fault.t, Fault.si_addr)
  => C14_Resumed

C14_RuntimeYellowFault ==
  /\ JavaFault
  /\ ~InJava
  /\ StackSignal
  /\ in_stack_yellow_reserved_zone(Fault.t, StackAddress)

\* C14, amended: for a Java thread in the runtime or in native code, a SIGSEGV (in
\* the macOS build a SIGBUS too) whose fault address, in the BSD build lowered by
\* the kernel's stack guard pages, is inside the thread's yellow or reserved zone
\* disables the yellow zone and returns handled with the pc and the saved
\* exception pc untouched and no later rule or chained handler consulted.
C14_RuntimeYellowZone == C14_RuntimeYellowFault => C14_Resumed

\* A thread in native code at a fast accessor's pc, which the slow-case rule
\* would otherwise redirect, faults in its still guarded yellow zone.
C14_RuntimeYellowZone_Witness ==
  /\ C14_RuntimeYellowFault
  /\ Fault.thread_state = "_thread_in_native"
  /\ Fault.pc = FastAccessorPc
  /\ Before.guard = "stack_guard_enabled"
  /\ ~in_stack_reserved_zone(Fault.t, StackAddress)
  /\ Ran.ret = "handled"

-----------------------------------------------------------------------------
\* C15: after any delivery the captured context differs from the context at entry
\* in its pc field at most: the stack pointer, frame pointer, link register and
\* general registers hold their entry values, after a SafeFetch resume and after
\* a stub redirect alike.
C15_OnlyPcWritten ==
  Delivered =>
    /\ Ran.uc.sp = Fault.sp
    /\ Ran.uc.fp = Fault.fp
    /\ Ran.uc.lr = Fault.lr
    /\ Ran.uc.x = Fault.x
    /\ Ran.uc.pc = Ran.pc
    /\ Ran.pc_writes = 0 => Ran.uc = Context(Fault)

\* A delivery that redirected the thread to a stub.
C15_OnlyPcWritten_Witness ==
  /\ Delivered
  /\ Fault.has_uc
  /\ Ran.via = "stub"
  /\ Ran.pc_writes = 1
  /\ Ran.uc.pc = ImplicitNullStub
  /\ Ran.uc.pc # Fault.pc
  /\ Ran.uc.lr = ContextLr
  /\ Ran.uc.sp = ContextSp
  /\ Ran.uc.x = ContextX

-----------------------------------------------------------------------------
\* The handler asks for the frame at the stack banging point (a reserved-zone
\* fault of a thread in Java code) at a pc outside the interpreter, in an
\* nmethod whose frame is not complete there.
C16_CompiledBang ==
  /\ JavaFault
  /\ InJava
  /\ StackSignal
  /\ in_stack_reserved_zone(Fault.t, StackAddress)
  /\ ~Interpreter_contains(Fault.pc)
  /\ is_nmethod(Fault.pc)
  /\ ~is_frame_complete_at(Fault.pc)

C16_Built == frame(Fault.sp, Fault.fp, Fault.lr - instruction_size)

\* C16: at a pc outside the interpreter, in an nmethod whose frame is not complete
\* at that pc, the frame get_frame_at_stack_banging_point hands back is the frame
\* built from pc = link register - one instruction width and the context's stack
\* and frame pointers, or that frame's Java sender when it is no Java frame; its
\* pc is never the faulting pc.
C16_BangingFrame ==
  C16_CompiledBang =>
    /\ Ran.fr = IF is_java_frame(C16_Built) THEN C16_Built ELSE java_sender(C16_Built)
    /\ Ran.fr.pc # Fault.pc
    /\ C16_Built.pc # Fault.pc

\* The link register points into a compiled caller, so the frame built is the one
\* handed back, and the search for an annotated method starts from it.
C16_BangingFrame_Witness ==
  /\ C16_CompiledBang
  /\ Fault.pc = NmethodBangPc
  /\ Fault.lr = ContextLr
  /\ Ran.fr = frame(ContextSp, ContextFp, NmethodBodyPc)
  /\ "annotated" \in Ran.asked

-----------------------------------------------------------------------------
\* A SIGSEGV or SIGBUS at a fast accessor's speculative load for which a rule
\* before the slow-case rule chose a stub, resolved by a redirect.
C17_EarlierStub ==
  /\ JavaFault
  /\ MemoryFault(Fault.sig)
  /\ find_slowcase_pc(Fault.pc) # -1
  /\ Len(Ran.stubs) >= 1
  /\ Ran.stubs[1].rule # "slowcase"
  /\ Ran.via = "stub"

\* C17 as stated: when an earlier rule chose a stub and the faulting pc is also a
\* registered slow-case pc, the pc is rewritten to the earlier rule's stub, not to
\* the slow-case pc.
C17_SlowCase_AsStated ==
  C17_EarlierStub =>
    /\ Ran.pc = Ran.stubs[1].stub
    /\ Ran.pc # find_slowcase_pc(Fault.pc)

\* The fault reaches the slow-case rule and is not taken by the serialize-page
\* rule after it.
C17_SlowCaseFault ==
  /\ JavaFault
  /\ MemoryFault(Fault.sig)
  /\ find_slowcase_pc(Fault.pc) # -1
  /\ Ran.via \notin {"assert_poison", "reserved_zone", "yellow_zone", "unimplemented"}
  /\ ~SerializePageRule(Fault)

\* C17, amended: the slow-case rule is the last to assign the stub and assigns it
\* whether or not an earlier rule chose one: a SIGSEGV or SIGBUS at a registered
\* fast-accessor pc that neither the assertion-poison filter nor the guard-zone
\* code returned from and that is no serialize-page fault is resolved by
\* rewriting the pc to the slow-case pc, an earlier rule's stub being dropped.
C17_SlowCase ==
  C17_SlowCaseFault =>
    /\ Ran.ret = "handled"
    /\ Ran.via = "stub"
    /\ FinalRule(Ran.stubs) = "slowcase"
    /\ Ran.pc = find_slowcase_pc(Fault.pc)
    /\ Ran.pc_writes = 1
    /\ Ran.set_saved_pc
    /\ Ran.saved_pc = Fault.pc

\* The unsafe-access rule chose the continuation after the faulting pc and the
\* slow-case rule replaced it.
C17_SlowCase_Witness ==
  /\ C17_SlowCaseFault
  /\ C17_EarlierStub
  /\ Fault.sig = "SIGBUS"
  /\ Fault.doing_unsafe_access
  /\ Ran.stubs[1].rule = "unsafe_access_vm"
  /\ Ran.stubs[1].stub = Fault.pc + instruction_size
  /\ Ran.pc = SlowCasePc

-----------------------------------------------------------------------------
\* C18 as stated: a SIGSEGV for which a rule before the serialize-page rule chose
\* a stub is resolved by rewriting the pc to that stub, not by blocking on the
\* serialize page and resuming at the unchanged pc.
C18_SerializePage_AsStated ==
  /\ JavaFault
  /\ Fault.sig = "SIGSEGV"
  /\ Ran.stubs # << >>
  => /\ Ran.via = "stub"
     /\ Ran.pc = FinalStub(Ran.stubs)
     /\ ~Ran.blocked

C18_SerializePageFault ==
  /\ JavaFault
  /\ Fault.sig = "SIGSEGV"
  /\ is_memory_serialize_page(Fault.si_addr)

\* C18, amended: the serialize-page rule does not look at the stub: every SIGSEGV
\* of a Java thread at the memory serialize page blocks on the page and returns
\* handled with the pc unchanged and no saved exception pc, also when an earlier
\* rule chose a stub, which is dropped; the chained handler is not consulted.
C18_SerializePage ==
  C18_SerializePageFault =>
    /\ Ran.ret = "handled"
    /\ Ran.via = "serialize_page"
    /\ Ran.blocked
    /\ Ran.pc = Fault.pc
    /\ Ran.pc_writes = 0
    /\ ~Ran.set_saved_pc
    /\ Ran.op = "none"
    /\ Ran.chain_calls = 0

\* The slow-case rule had chosen a stub for a thread in native code at a fast
\* accessor's pc.
C18_SerializePage_Witness ==
  /\ C18_SerializePageFault
  /\ Fault.thread_state = "_thread_in_native"
  /\ Fault.pc = FastAccessorPc
  /\ FinalStub(Ran.stubs) = SlowCasePc
  /\ Ran.blocked
  /\ Ran.pc = FastAccessorPc

-----------------------------------------------------------------------------
\* A SIGBUS of a Java thread whose fault address is in the thread's yellow,
\* reserved or red zone.
C19_BusFaultInZone ==
  /\ JavaFault
  /\ Fault.sig = "SIGBUS"
  /\ \/ in_stack_yellow_reserved_zone(Fault.t, Fault.si_addr)
     \/ in_stack_red_zone(Fault.t, Fault.si_addr)

\* What the stack overflow code does with the same fault delivered as a SIGSEGV.
C19_AsSegv ==
  StackOverflowRule(platform, Fault.t, [Fault EXCEPT !.sig = "SIGSEGV"])

C19_LikeSegv ==
  /\ Ran.op = C19_AsSegv.op
  /\ Ran.set_activation = C19_AsSegv.set_activation
  /\ Ran.activation = C19_AsSegv.activation
  /\ Ran.fr = C19_AsSegv.fr
  /\ C19_AsSegv.return1 => Ran.ret = "handled" /\ Ran.via \in {"reserved_zone", "yellow_zone"}
  /\ C19_AsSegv.stub # NULL =>
       Ran.stubs # << >> /\ Ran.stubs[1] = [rule |-> "stack_overflow", stub |-> C19_AsSegv.stub]

\* C19 as stated: in every variant a SIGBUS whose address is in the faulting Java
\* thread's yellow or red zone gets guard-zone handling: a zone is disabled.
C19_BusGuardZone_AsStated == C19_BusFaultInZone => Ran.op # "none"

\* C19, amended: in the macOS variant a SIGBUS whose address is in the faulting
\* Java thread's yellow, reserved or red zone gets the guard-zone handling a
\* SIGSEGV at that address gets (same zone operation, same activation, same
\* stack overflow stub, same early return); in the variant for the other BSDs the
\* stack overflow code is entered for SIGSEGV only and a SIGBUS touches no zone.
C19_BusGuardZone ==
  C19_BusFaultInZone =>
    IF platform = "apple"
    THEN Ran.op # "none" /\ C19_LikeSegv
    ELSE /\ Ran.op = "none"
         /\ ZonesUnchanged
         /\ ~Ran.set_activation
         /\ \A i \in 1..Len(Ran.stubs) : Ran.stubs[i].rule # "stack_overflow"
         /\ Ran.via \notin {"reserved_zone", "yellow_zone"}

\* macOS: a SIGBUS in the yellow zone of a thread in Java code is sent to the
\* stack overflow stub.
C19_BusGuardZone_Witness ==
  /\ C19_BusFaultInZone
  /\ platform = "apple"
  /\ InJava
  /\ Ran.op = "disable_stack_yellow_reserved_zone"
  /\ Ran.via = "stub"
  /\ Ran.pc = StackOverflowStub

-----------------------------------------------------------------------------
\* A SIGBUS of a Java thread in the runtime or in native code that is doing an
\* unsafe access, which no step before the unsafe-access rule returns from (no
\* yellow-zone fault) and no rule after it overrides (no fast accessor's pc).
C20_UnsafeAccessFault ==
  /\ JavaFault
  /\ Fault.sig = "SIGBUS"
  /\ Fault.thread_state \in {"_thread_in_vm", "_thread_in_native"}
  /\ Fault.doing_unsafe_access
  /\ ~Fault.assert_poison
  /\ ~in_stack_yellow_reserved_zone(Fault.t, Fault.si_addr)
  /\ find_slowcase_pc(Fault.pc) = -1

C20_Redirected ==
  /\ Ran.ret = "handled"
  /\ Ran.via = "stub"
  /\ Ran.pc = handle_unsafe_access(Fault.pc + instruction_size)
  /\ Ran.pc_writes = 1

\* C20: in every variant a SIGBUS taken by a Java thread in _thread_in_vm or
\* _thread_in_native that is flagged as doing an unsafe access is handled by
\* rewriting the pc to the unsafe-access continuation for the faulting pc plus
\* one call-instruction size.
C20_UnsafeAccess_AsStated == C20_UnsafeAccessFault => C20_Redirected

\* What the code does: the redirect in the macOS variant in both modes, in the
\* variant for the other BSDs in _thread_in_vm only; there a thread in native
\* code gets no stub and the fault goes to the chained handler.
C20_UnsafeAccess_PerVariant ==
  C20_UnsafeAccessFault =>
    IF UnsafeAccessMode(platform, Fault.thread_state)
    THEN C20_Redirected
    ELSE /\ platform = "bsd"
         /\ Fault.thread_state = "_thread_in_native"
         /\ Ran.stubs = << >>
         /\ Ran.pc = Fault.pc
         /\ Ran.via \in {"chain", "unhandled", "fatal"}

\* The BSD variant ends a native thread's flagged unsafe access in the fatal report.
C20_UnsafeAccess_Witness ==
  /\ C20_UnsafeAccessFault
  /\ platform = "bsd"
  /\ Fault.thread_state = "_thread_in_native"
  /\ Fault.si_addr = HeapPage
  /\ Ran.ret = "fatal"

-----------------------------------------------------------------------------
C21_NullStub ==
  /\ Ran.ret = "handled"
  /\ Ran.via = "stub"
  /\ Ran.pc = continuation_for_implicit_exception(Fault.pc, "IMPLICIT_NULL")
  /\ Ran.pc_writes = 1
  /\ Ran.stubs = << [rule |-> "implicit_null",
                     stub |-> continuation_for_implicit_exception(Fault.pc, "IMPLICIT_NULL")] >>
  /\ Ran.op = "none"

C21_NullAddress ==
  /\ ~needs_explicit_null_check(Fault.si_addr)
  /\ ~on_local_stack(Fault.t, Fault.si_addr)
  /\ ~is_poll_address(Fault.si_addr)

\* C21 as stated: in every variant a SIGSEGV or SIGBUS of a Java thread in Java
\* code at an address that needs no explicit null check, outside the thread's
\* stack and not the poll address, returns handled with the pc at the implicit
\* null stub.
C21_ImplicitNull_AsStated ==
  JavaFault /\ InJava /\ MemoryFault(Fault.sig) /\ C21_NullAddress => C21_NullStub

C21_NullFault ==
  /\ JavaFault
  /\ InJava
  /\ Fault.sig = "SIGSEGV" \/ (platform = "apple" /\ Fault.sig = "SIGBUS")
  /\ C21_NullAddress

\* C21, amended: a SIGSEGV (in the macOS variant a SIGBUS too) of a Java thread in
\* Java code at an address that needs no explicit null check, outside the
\* thread's stack and not the poll address, returns handled with the pc rewritten
\* once to the implicit null stub, the only stub of the run; in the variant for
\* the other BSDs a SIGBUS never reaches the null rule.
C21_ImplicitNull ==
  /\ C21_NullFault => C21_NullStub
  /\ JavaFault /\ InJava /\ platform = "bsd" /\ Fault.sig = "SIGBUS" =>
       \A i \in 1..Len(Ran.stubs) : Ran.stubs[i].rule # "implicit_null"

\* macOS: a bus fault on the null page from the interpreter.
C21_ImplicitNull_Witness ==
  /\ C21_NullFault
  /\ Fault.sig = "SIGBUS"
  /\ Fault.pc = InterpreterPc
  /\ Ran.pc = ImplicitNullStub + instruction_size

-----------------------------------------------------------------------------
\* A bus fault of a Java thread in Java code that no rule before the
\* unsafe-access rule takes: not the assertion-poison page, not on the thread's
\* stack, not the poll address.
C22_BusFault ==
  /\ JavaFault
  /\ InJava
  /\ Fault.sig = "SIGBUS"
  /\ Fault.si_addr # AssertPoisonPage
  /\ ~on_local_stack(Fault.t, Fault.si_addr)
  /\ ~is_poll_address(Fault.si_addr)

C22_Marked == is_nmethod(Fault.pc) /\ has_unsafe_access(Fault.pc)

C22_Redirected ==
  /\ Ran.ret = "handled"
  /\ Ran.via = "stub"
  /\ Ran.pc = handle_unsafe_access(Fault.pc + instruction_size)
  /\ Ran.pc_writes = 1
  /\ Ran.stubs = << [rule |-> "unsafe_access",
                     stub |-> handle_unsafe_access(Fault.pc + instruction_size)] >>

\* C22 as stated: a bus fault of a Java thread in Java code whose pc is in a
\* compiled method marked has_unsafe_access is redirected to the unsafe-access
\* continuation for pc + one call-instruction size.
C22_UnsafeAccess_AsStated == C22_BusFault /\ C22_Marked => C22_Redirected

\* The macOS variant enters the unsafe-access rule only for an address that
\* needs an explicit null check.
C22_RuleEntered ==
  platform = "apple" => needs_explicit_null_check(Fault.si_addr)

\* C22, amended: such a bus fault (in the macOS variant only at an address that
\* needs an explicit null check; at another address the implicit null rule takes
\* it) is redirected to the unsafe-access continuation for pc + one
\* call-instruction size when the pc is in a compiled method marked
\* has_unsafe_access; otherwise the rule chooses no stub, no other rule does, and
\* the delivery ends in the chained handler, unhandled or fatal.
C22_UnsafeAccess ==
  /\ C22_BusFault /\ C22_RuleEntered /\ C22_Marked => C22_Redirected
  /\ C22_BusFault /\ C22_RuleEntered /\ ~C22_Marked =>
       /\ Ran.stubs = << >>
       /\ Ran.pc = Fault.pc
       /\ Ran.pc_writes = 0
       /\ Ran.via \in {"chain", "unhandled", "fatal"}
  /\ C22_BusFault /\ ~C22_RuleEntered =>
       /\ Ran.via = "stub"
       /\ Ran.stubs = << [rule |-> "implicit_null",
                          stub |-> continuation_for_implicit_exception(Fault.pc,
                                                                      "IMPLICIT_NULL")] >>

\* A bus fault on a mapped region from a compiled method with unsafe accesses.
C22_UnsafeAccess_Witness ==
  /\ C22_BusFault
  /\ C22_Marked
  /\ Fault.si_addr = HeapPage
  /\ Ran.pc = NmethodBangPc + instruction_size
  /\ Ran.saved_pc = NmethodBangPc

-----------------------------------------------------------------------------
\* A SIGSEGV or SIGBUS at the poll address taken by a thread that is not a Java
\* thread in Java code: a thread unknown to the VM, the VM thread, or a Java
\* thread in the runtime or in native code.
C23_PollOutsideJava ==
  /\ Delivered
  /\ MemoryFault(Fault.sig)
  /\ Fault.has_info
  /\ is_poll_address(Fault.si_addr)
  /\ ~is_Java_thread(Fault.t) \/ ~InJava

\* C23: the safepoint-poll rule is evaluated only for Java threads in Java code: a
\* SIGSEGV or SIGBUS at the poll address taken by any other thread, or by a Java
\* thread in the runtime or in native code, is never redirected to the poll stub.
C23_PollOnlyInJava ==
  C23_PollOutsideJava =>
    /\ \A i \in 1..Len(Ran.stubs) : Ran.stubs[i].rule # "poll"
    /\ Ran.pc # get_poll_stub(Fault.pc)
    /\ Ran.uc.pc # get_poll_stub(Fault.pc)

\* A Java thread in native code faults at the poll address with info and context;
\* no rule matches and the chained handler is asked.
C23_PollOnlyInJava_Witness ==
  /\ C23_PollOutsideJava
  /\ signal_handlers_are_installed
  /\ Fault.t = "J1"
  /\ Fault.thread_state = "_thread_in_native"
  /\ Fault.has_uc
  /\ Fault.pc = NativePc
  /\ Ran.stubs = << >>
  /\ Ran.chain_calls = 1

-----------------------------------------------------------------------------
\* A repeat fault: the address the stack overflow code tests is in the yellow or
\* reserved zone of a thread whose yellow and reserved zones are disabled, or in
\* the red zone of a thread whose red zone is disabled.
C24_RepeatYellow ==
  /\ JavaFault
  /\ StackSignal
  /\ in_stack_yellow_reserved_zone(Fault.t, StackAddress)
  /\ Before.guard = "stack_guard_yellow_reserved_disabled"
C24_RepeatRed ==
  /\ JavaFault
  /\ StackSignal
  /\ in_stack_red_zone(Fault.t, StackAddress)
  /\ Before.red

C24_NoZoneHandling ==
  /\ Ran.op = "none"
  /\ Ran.via \notin {"reserved_zone", "yellow_zone"}
  /\ \A i \in 1..Len(Ran.stubs) : Ran.stubs[i].rule # "stack_overflow"

\* C24 as stated: on a repeat fault in a zone the thread has already disabled the
\* zone's handling is not run again: no disable, no stack overflow stub and no
\* resume decided by the stack overflow code.
C24_RepeatFault_AsStated == C24_RepeatYellow \/ C24_RepeatRed => C24_NoZoneHandling

\* C24, amended: the stack overflow code tests the fault address only, never the
\* zone state, so a repeat fault in an already disabled zone gets the zone's
\* handling again: the disable operation is called again and leaves the zone
\* state as it was, a thread in Java code is sent to the stack overflow stub (or
\* resumed with a reserved-stack activation), a thread in the runtime or in
\* native code is resumed, and a red-zone fault goes on to the later rules.
C24_RepeatFault ==
  /\ C24_RepeatYellow =>
       /\ Ran.op \in {"disable_stack_yellow_reserved_zone", "disable_stack_reserved_zone"}
       /\ After.guard = Before.guard
       /\ After.red = Before.red
       /\ InJava /\ Ran.op = "disable_stack_yellow_reserved_zone" =>
            Ran.stubs # << >> /\ Ran.stubs[1].rule = "stack_overflow"
       /\ InJava /\ Ran.op = "disable_stack_reserved_zone" =>
            Ran.ret = "handled" /\ Ran.via = "reserved_zone" /\ Ran.set_activation
       /\ ~InJava =>
            /\ Ran.op = "disable_stack_yellow_reserved_zone"
            /\ Ran.ret = "handled"
            /\ Ran.via = "yellow_zone"
  /\ C24_RepeatRed =>
       /\ Ran.op = "disable_stack_red_zone"
       /\ After.red
       /\ After.guard = Before.guard
       /\ Ran.via \notin {"reserved_zone", "yellow_zone"}

\* A thread sent to the stack overflow stub by a yellow-zone fault faults in the
\* yellow zone again and is sent to the stub again.
C24_RepeatFault_Witness ==
  /\ C24_RepeatYellow
  /\ InJava
  /\ last.prev = "yellow_zone_stack_overflow_stub"
  /\ ~in_stack_reserved_zone(Fault.t, StackAddress)
  /\ Ran.op = "disable_stack_yellow_reserved_zone"
  /\ Ran.via = "stub"
  /\ Ran.pc = StackOverflowStub

----------------------------------------------------------------------------
C25_Nested == Delivered /\ last.nested /\ StackSignal

\* The nested fault lies in the zone the outer invocation has just disabled.
C25_SameYellow ==
  /\ C25_Nested
  /\ last.prev \in {"yellow_zone_stack_overflow_stub", "yellow_zone"}
  /\ in_stack_yellow_reserved_zone(Fault.t, StackAddress)
C25_SameReserved ==
  /\ C25_Nested
  /\ last.prev = "disable_stack_reserved_zone"
  /\ in_stack_reserved_zone(Fault.t, StackAddress)
C25_SameRed ==
  /\ C25_Nested
  /\ last.prev = "disable_stack_red_zone"
  /\ in_stack_red_zone(Fault.t, StackAddress)

\* C25 as stated: a nested fault in the zone the outer invocation has disabled
\* leaves the guard-zone state the outer invocation alone produced.
C25_NestedDisable_AsStated ==
  C25_SameYellow \/ C25_SameReserved \/ C25_SameRed => ZonesUnchanged

\* C25, amended: a nested fault in the yellow or the red zone the outer
\* invocation has disabled calls the same disable again and leaves the guard-zone
\* state the outer invocation alone produced.  A nested fault in the reserved
\* zone the outer invocation has disabled is taken at a pc of the handler, for
\* which no annotated frame is found: it is handled as a yellow-zone fault and
\* disables the yellow zone too.
C25_NestedDisable ==
  /\ C25_SameYellow =>
       Ran.op = "disable_stack_yellow_reserved_zone" /\ ZonesUnchanged
  /\ C25_SameRed =>
       Ran.op = "disable_stack_red_zone" /\ ZonesUnchanged
  /\ C25_SameReserved =>
       /\ Ran.op = "disable_stack_yellow_reserved_zone"
       /\ After.guard = "stack_guard_yellow_reserved_disabled"
       /\ After.red = Before.red

\* A thread in the runtime faults in its yellow zone and, inside the handler,
\* faults in the yellow zone again.
C25_NestedDisable_Witness ==
  /\ C25_SameYellow
  /\ ~InJava
  /\ Ran.op = "disable_stack_yellow_reserved_zone"
  /\ After.guard = "stack_guard_yellow_reserved_disabled"

----------------------------------------------------------------------------
\* A fault on which the handler calls get_frame_at_stack_banging_point: a stack
\* overflow fault of a thread in Java code at an address of its reserved zone.
C26_BangingFault ==
  /\ JavaFault
  /\ InJava
  /\ StackSignal
  /\ in_stack_reserved_zone(Fault.t, StackAddress)
C26_Got == get_frame_at_stack_banging_point(Fault)

\* The two places where the function builds a frame from the context, and the
\* frame it builds there.
C26_Reconstructs ==
  \/ Interpreter_contains(Fault.pc)
  \/ is_nmethod(Fault.pc) /\ ~is_frame_complete_at(Fault.pc)
C26_Reconstructed ==
  IF Interpreter_contains(Fault.pc) THEN fetch_frame_from_context(Fault)
  ELSE CompiledBangingFrame(Fault)

\* The caller's handling without a frame: the yellow zone is disabled and the
\* thread is sent to the stack overflow stub.
C26_DefaultHandling ==
  /\ Ran.op = "disable_stack_yellow_reserved_zone"
  /\ ~Ran.set_activation
  /\ Ran.stubs # << >>
  /\ Ran.stubs[1].rule = "stack_overflow"
  /\ Ran.stubs[1].stub = StackOverflowStub

\* C26 as stated: success is reported only with a Java frame, and when the frame
\* built from the context is no Java frame the function returns false and the
\* caller does the default handling.
C26_BangingPoint_AsStated ==
  C26_BangingFault =>
    /\ C26_Got.ok => is_java_frame(C26_Got.fr)
    /\ C26_Reconstructs /\ ~is_java_frame(C26_Reconstructed) =>
         ~C26_Got.ok /\ C26_DefaultHandling

\* C26, amended: success is reported only with a Java frame, but a frame built
\* from the context that is no Java frame is replaced by its Java sender and
\* success is reported.  The function returns false exactly when the pc is
\* neither in the interpreter nor in an nmethod before its frame is complete,
\* where it builds no frame; the caller then does the default handling.
C26_BangingPoint ==
  C26_BangingFault =>
    /\ Ran.fr = C26_Got.fr
    /\ C26_Got.ok => is_java_frame(C26_Got.fr)
    /\ C26_Got.ok <=> C26_Reconstructs
    /\ C26_Reconstructs /\ ~is_java_frame(C26_Reconstructed) =>
         C26_Got.ok /\ C26_Got.fr = java_sender(C26_Reconstructed)
    /\ ~C26_Got.ok => C26_DefaultHandling

\* At the stack bang of a compiled method called from a stub the frame built at
\* LR is no Java frame; its Java sender is returned and an annotated activation
\* is found from it.
C26_BangingPoint_Witness ==
  /\ C26_BangingFault
  /\ Fault.pc = NmethodBangPc
  /\ ~is_java_frame(C26_Reconstructed)
  /\ C26_Got.ok
  /\ Ran.fr = JavaSenderFrame
  /\ Ran.set_activation

----------------------------------------------------------------------------
\* A fault on which get_frame_at_stack_banging_point takes its interpreter path.
C27_InterpreterFault ==
  /\ JavaFault
  /\ InJava
  /\ StackSignal
  /\ in_stack_reserved_zone(Fault.t, StackAddress)
  /\ Interpreter_contains(Fault.pc)
C27_ContextFrame == fetch_frame_from_context(Fault)

\* C27 as stated: for a pc in the interpreter the frame returned is the Java
\* sender of the context's frame, the first Java frame of the thread included.
C27_InterpreterFrame_AsStated ==
  C27_InterpreterFault => Ran.fr = java_sender(C27_ContextFrame)

\* C27, amended: for a pc in the interpreter the frame returned is the Java
\* sender of the context's frame, unless that frame is the first Java frame of
\* the thread, which is returned itself.
C27_InterpreterFrame ==
  C27_InterpreterFault =>
    /\ ~Fault.first_java_frame => Ran.fr = java_sender(C27_ContextFrame)
    /\ Fault.first_java_frame =>
         Ran.fr = C27_ContextFrame /\ Ran.fr # java_sender(C27_ContextFrame)

\* An interpreted method with a caller bangs into the reserved zone: the caller's
\* frame is returned.
C27_InterpreterFrame_Witness ==
  /\ C27_InterpreterFault
  /\ ~Fault.first_java_frame
  /\ Ran.fr = JavaSenderFrame

----------------------------------------------------------------------------
\* A delivery ends in one of the handler's outcomes, and it waits only in the
\* serialize-page case.
C28_OneOutcome ==
  Delivered =>
    /\ Ran.ret \in {"handled", "unhandled", "fatal", "unimplemented", "longjmp"}
    /\ Ran.blocked <=> Ran.via = "serialize_page"
    /\ last.waiting =>
         /\ Ran.blocked
         /\ Ran.ret = "handled"
         /\ Fault.sig = "SIGSEGV"
         /\ is_memory_serialize_page(Fault.si_addr)
    /\ Terminated(Ran) => ~last.waiting

C28_SerializePageFault ==
  /\ Delivered
  /\ Fault.sig = "SIGSEGV"
  /\ Fault.has_info
  /\ is_memory_serialize_page(Fault.si_addr)
C28_ReturnedHandled ==
  /\ C28_SerializePageFault
  /\ ~last.waiting
  /\ Ran.ret = "handled"
  /\ Ran.pc = Fault.pc
  /\ Ran.pc_writes = 0

C28_SerializePageCase ==
  /\ JavaFault
  /\ Fault.sig = "SIGSEGV"
  /\ is_memory_serialize_page(Fault.si_addr)

----------------------------------------------------------------------------
C29_Unhandled == Delivered /\ Ran.ret = "unhandled"
C29_NothingChanged ==
  /\ Ran.pc = Fault.pc
  /\ Ran.pc_writes = 0
  /\ After.guard = Before.guard
  /\ After.red = Before.red
  /\ After.activation = Before.activation
  /\ After.saved_pc = Before.saved_pc

\* C29 as stated: a delivery that returns false has changed nothing: the context's
\* pc and the faulting thread's guard-zone state, reserved-stack activation and
\* saved exception pc are as at entry.
C29_UnhandledUnchanged_AsStated == C29_Unhandled => C29_NothingChanged

\* What the code does: a delivery that returns false leaves the pc, the yellow and
\* reserved zones, the activation and the saved exception pc as they were, but
\* after a fault in the red zone it has disabled the red zone.
C29_UnhandledUnchanged_ButRedZone ==
  C29_Unhandled =>
    /\ Ran.pc = Fault.pc
    /\ Ran.pc_writes = 0
    /\ After.guard = Before.guard
    /\ After.activation = Before.activation
    /\ After.saved_pc = Before.saved_pc
    /\ Ran.op \in {"none", "disable_stack_red_zone"}
    /\ Ran.op = "none" => After.red = Before.red

\* A first fault in the red zone returns false with the red zone disabled.
C29_UnhandledUnchanged_Witness ==
  /\ C29_Unhandled
  /\ Ran.op = "disable_stack_red_zone"
  /\ ~Before.red
  /\ After.red

----------------------------------------------------------------------------
C30_StubChosen == Delivered /\ Ran.stubs # << >>
C30_NoContextOrInfo == Delivered /\ (~Fault.has_uc \/ ~Fault.has_info)

\* C30 as stated: a stub is chosen only with context, info and Java thread, and
\* without context or info the run ends as ignorable, chained, unhandled or fatal.
C30_UsableContext_AsStated ==
  /\ C30_StubChosen =>
       Fault.has_uc /\ Fault.has_info /\ Ran.thread # NoThread
  /\ C30_NoContextOrInfo =>
       Ran.via \in {"ignorable", "chain", "unhandled", "fatal"}

\* C30, amended: a stub is chosen only with context, info and Java thread, and
\* the pc is written only to a context that is there.  Without context or info
\* no rule is run and no stub chosen; the run ends as ignorable, chained,
\* unhandled or fatal, or in one of the steps before the rules: the jump to the
\* crash-protection point, the assert-poison resume (with info) or the SafeFetch
\* resume at the continuation (with a context).
C30_UsableContext ==
  /\ C30_StubChosen =>
       /\ Fault.has_uc
       /\ Fault.has_info
       /\ Ran.thread # NoThread
       /\ is_Java_thread(Fault.t)
  /\ Delivered /\ Ran.pc_writes > 0 => Fault.has_uc
  /\ Delivered /\ Ran.via = "stub" => C30_StubChosen /\ Ran.pc_writes = 1
  /\ C30_NoContextOrInfo =>
       /\ Ran.stubs = << >>
       /\ Ran.op = "none"
       /\ ~Ran.set_saved_pc
       /\ Ran.via \in {"ignorable", "chain", "unhandled", "fatal",
                       "crash_protection", "assert_poison", "safefetch"}
       /\ Ran.via = "assert_poison" => Fault.has_info
       /\ Ran.via = "safefetch" => Fault.has_uc /\ Ran.pc # Fault.pc

\* A null-check stub is chosen and written to the context of a Java thread.
C30_UsableContext_Witness ==
  /\ C30_StubChosen
  /\ Ran.via = "stub"
  /\ Ran.pc = ImplicitNullStub
  /\ Fault.has_uc
  /\ Fault.has_info

----------------------------------------------------------------------------
\* A delivery for which the handler has no Java thread: the handlers are not
\* installed, there is no current thread, or the current thread is no Java thread.
C31_NoJavaThread ==
  /\ Delivered
  /\ ~IsIgnorableSignal(Fault.sig)
  /\ \/ ~signal_handlers_are_installed
     \/ Fault.t = NoThread
     \/ ~is_Java_thread(Fault.t)
C31_NoRecovery ==
  /\ Ran.op = "none"
  /\ Ran.stubs = << >>
  /\ Ran.via # "stub"
  /\ ~Ran.set_saved_pc
  /\ ~Ran.set_activation
  /\ ~Ran.blocked
  /\ \A u \in JavaThreads : Untouched(u)

\* C31 as stated: without a Java thread a delivery of a signal that is not
\* ignorable changes no guard zone and chooses no stub, and ends as SafeFetch
\* resume, chained, unhandled or fatal.
C31_NoJavaThread_AsStated ==
  C31_NoJavaThread =>
    /\ C31_NoRecovery
    /\ Ran.via \in {"safefetch", "chain", "unhandled", "fatal"}

\* C31, amended: without a Java thread a delivery of a signal that is not
\* ignorable changes no guard zone, chooses no stub and runs no rule; it ends as
\* SafeFetch resume, chained, unhandled or fatal, or in one of the two other steps
\* before the rules: the jump to the crash-protection point or the assert-poison
\* resume.
C31_NoJavaThreadOutcome ==
  C31_NoJavaThread =>
    /\ C31_NoRecovery
    /\ Ran.thread = NoThread
    /\ Ran.via \in {"safefetch", "chain", "unhandled", "fatal",
                    "crash_protection", "assert_poison"}
    /\ Ran.via = "crash_protection" => Fault.t # NoThread /\ ~is_Java_thread(Fault.t)
    /\ Ran.via # "safefetch" => Ran.pc = Fault.pc /\ Ran.pc_writes = 0

\* A Java thread faults at the null page before the handlers are installed: no
\* null-check stub, the fault goes to the fatal report.
C31_NoJavaThreadOutcome_Witness ==
  /\ C31_NoJavaThread
  /\ is_Java_thread(Fault.t)
  /\ Fault.has_info
  /\ Fault.has_uc
  /\ Fault.sig = "SIGSEGV"
  /\ Fault.si_addr = NullPage
  /\ Fault.thread_state = "_thread_in_Java"
  /\ Ran.via = "fatal"

----------------------------------------------------------------------------
----------------------------------------------------------------------------
\* C33: a delivery writes the context's pc at most once, and one that writes it
\* returns handled.  The SafeFetch resume writes the continuation and chooses no
\* stub; the stub redirect writes the stub chosen last, once; every other end of
\* a delivery leaves the pc and the context as captured.
C33_PcWrittenOnce ==
  Delivered =>
    /\ Ran.pc_writes \in {0, 1}
    /\ Ran.pc_writes = 1 <=> Ran.via \in {"safefetch", "stub"}
    /\ Ran.pc_writes = 1 => Ran.ret = "handled"
    /\ Ran.via = "safefetch" =>
         /\ Ran.pc = continuation_for_safefetch_fault(Fault.pc)
         /\ Ran.uc = ucontext_set_pc(Context(Fault), Ran.pc)
         /\ Ran.stubs = << >>
    /\ Ran.via = "stub" =>
         /\ Ran.stubs # << >>
         /\ Ran.pc = FinalStub(Ran.stubs)
         /\ Ran.uc = ucontext_set_pc(Context(Fault), Ran.pc)
    /\ Ran.via \in {"reserved_zone", "yellow_zone", "serialize_page", "ignorable",
                    "chain", "unhandled"} =>
         Ran.pc_writes = 0
    /\ Ran.pc_writes = 0 => Ran.pc = Fault.pc /\ Ran.uc = Context(Fault)

\* Two rules chose a stub; the pc is written once, with the second.
C33_PcWrittenOnce_Witness ==
  /\ Delivered
  /\ Ran.via = "stub"
  /\ Len(Ran.stubs) = 2
  /\ Ran.pc_writes = 1
  /\ Ran.pc = Ran.stubs[2].stub
  /\ Ran.pc # Ran.stubs[1].stub

----------------------------------------------------------------------------
\* C34: a delivery that redirects to a stub sets the thread's saved exception pc
\* to the pc the context held at entry, not to the stub written over it; a
\* delivery that ends in any other way (SafeFetch resume included) does not set
\* the saved exception pc, which stays as it was.  (After a nested delivery the
\* outer invocation's own saved exception pc is the one that stays.)
C34_SavedExceptionPc ==
  Delivered =>
    /\ Ran.via = "stub" =>
         /\ Ran.set_saved_pc
         /\ Ran.saved_pc = Fault.pc
         /\ Ran.saved_pc # Ran.pc
         /\ ~last.nested => After.saved_pc = Fault.pc
         /\ last.nested => After.saved_pc \in {Fault.pc, Before.saved_pc}
    /\ Ran.via # "stub" =>
         /\ ~Ran.set_saved_pc
         /\ After.saved_pc = Before.saved_pc

\* A null check in compiled code: the pc is rewritten to the stub and the saved
\* exception pc is the faulting pc.
C34_SavedExceptionPc_Witness ==
  /\ Delivered
  /\ ~last.nested
  /\ Ran.via = "stub"
  /\ Ran.pc = ImplicitNullStub
  /\ Fault.pc = NmethodBodyPc
  /\ saved_exception_pc[Fault.t] = NmethodBodyPc
  /\ Before.saved_pc # NmethodBodyPc


(***************************************************************************)
(* C35: the baseline protocol of the CPU-load queries.                     *)
(***************************************************************************)
\* The last call was a load query that reached its system query.
C35_Query ==
  /\ call.valid
  /\ call.path \in {"query_failed", "first_call", "zero_delta", "ratio"}

\* The pair stored for the query before and after the last call.
C35_Before == Baseline(call.before, call.fn, call.cpu_number)
C35_After == Baseline(counters, call.fn, call.cpu_number)

\* The ratio of the new sample against the pair stored before the call.
C35_Ratio ==
  jdouble_div(call.in.sample.used - C35_Before.used,
              call.in.sample.total - C35_Before.total)

\* C35 as stated: a call made while no pair is stored returns 0 and stores the
\* sample; every other call whose queries succeed returns the ratio against the
\* stored pair and stores the sample; a call whose query fails returns -1 and
\* leaves the stored pair unchanged.
C35_Baseline_AsStated ==
  C35_Query =>
    IF call.in.failed # "none"
    THEN call.ret = jdouble(-1) /\ C35_After = C35_Before
    ELSE IF C35_Before = ZeroTicks
    THEN call.ret = jdouble(0) /\ C35_After = call.in.sample
    ELSE call.ret = C35_Ratio /\ C35_After = call.in.sample

\* C35, amended: a call whose query fails returns -1 and leaves the stored pair
\* unchanged; a successful call made while the stored pair has a zero used or a
\* zero total field (nothing stored, or a sample with a zero) returns 0 and
\* stores the sample; a successful getProcessCpuLoad0 call whose time equals the
\* stored time returns -1 and leaves the stored pair unchanged; every other
\* successful call returns the ratio against the stored pair and stores the
\* sample.
C35_Baseline ==
  C35_Query =>
    IF call.in.failed # "none"
    THEN call.ret = jdouble(-1) /\ C35_After = C35_Before
    ELSE IF C35_Before.used = 0 \/ C35_Before.total = 0
    THEN call.ret = jdouble(0) /\ C35_After = call.in.sample
    ELSE IF call.fn = "getProcessCpuLoad0" /\ call.in.sample.total = C35_Before.total
    THEN call.ret = jdouble(-1) /\ C35_After = C35_Before
    ELSE call.ret = C35_Ratio /\ C35_After = call.in.sample

\* A later call returned a positive ratio against the pair stored by an earlier
\* one.
C35_Baseline_Witness ==
  /\ C35_Query
  /\ call.path = "ratio"
  /\ C35_Before.used > 0
  /\ call.ret.kind = "value"
  /\ call.ret.num > 0
  /\ C35_After = call.in.sample


(***************************************************************************)
(* C36: no CPU-load query divides by a zero delta.                         *)
(***************************************************************************)
\* The last call sampled a pair whose total equals the stored total, with a pair
\* stored that the first-call test lets through.
C36_ZeroDelta ==
  /\ C35_Query
  /\ call.in.failed = "none"
  /\ ~FirstCall(C35_Before)
  /\ call.in.sample.total = C35_Before.total

\* C36 as stated: whenever a query computes the ratio the total delta is not
\* zero, and a call with a zero total delta returns -1.
C36_NoZeroDivide_AsStated ==
  /\ (call.valid /\ call.path = "ratio") => call.in.sample.total # C35_Before.total
  /\ C36_ZeroDelta => call.ret = jdouble(-1)

\* What holds of getProcessCpuLoad0 alone.
C36_NoZeroDivide_Process ==
  (call.valid /\ call.fn = "getProcessCpuLoad0") =>
    /\ call.path = "ratio" => call.in.sample.total # C35_Before.total
    /\ C36_ZeroDelta => call.ret = jdouble(-1) /\ call.path = "zero_delta"

\* getSystemCpuLoad0 or getSingleCpuLoad0 divided by a zero delta: the value
\* returned is not a number.
C36_ZeroDivide_Reached ==
  /\ C36_ZeroDelta
  /\ call.fn \in {"getSystemCpuLoad0", "getSingleCpuLoad0"}
  /\ call.path = "ratio"
  /\ call.ret.kind \in {"NaN", "Inf"}


(***************************************************************************)
(* C37: getSingleCpuLoad0 only indexes a valid per-CPU table.              *)
(***************************************************************************)
C37_Single == call.valid /\ call.fn = "getSingleCpuLoad0"

\* The pair stored for CPU j in the counters c (zero when there is none).
C37_Entry(c, j) == Baseline(c, "getSingleCpuLoad0", j)

\* The last call changed no stored pair other than that of its own CPU.
C37_OthersKept ==
  /\ counters.cpuTicks = call.before.cpuTicks
  /\ counters.jvmTicks = call.before.jvmTicks
  /\ \A j \in 0..(MaxProcs - 1) :
       j # call.cpu_number => C37_Entry(counters, j) = C37_Entry(call.before, j)

\* The last call's cpu_number is outside [0, nProcs).
C37_OutOfRange ==
  call.cpu_number < 0 \/ call.cpu_number >= counters.nProcs

\* The last call went on to counters.cpus[cpu_number].
C37_Indexes == call.path \in {"first_call", "ratio", "null_dereference"}

\* C37 as stated: outside [0, nProcs) the call returns -1 and touches no stored
\* pair; whenever the call goes on to counters.cpus[cpu_number] the table is not
\* NULL; the call changes no stored pair of another CPU and neither the
\* system-wide nor the process pair.
C37_ValidTable_AsStated ==
  C37_Single =>
    /\ C37_OutOfRange =>
         /\ call.ret = jdouble(-1)
         /\ C37_OthersKept
         /\ C37_Entry(counters, call.cpu_number) = C37_Entry(call.before, call.cpu_number)
    /\ C37_Indexes =>
         /\ ~counters.cpus.null
         /\ call.cpu_number \in DOMAIN counters.cpus.at
    /\ C37_OthersKept

\* What holds: the range test and the isolation of the stored pairs; and the
\* index is in the table whenever the table was allocated.
C37_ValidTable_IfAllocated ==
  C37_Single =>
    /\ C37_OutOfRange =>
         /\ call.ret = jdouble(-1)
         /\ call.path \in {"out_of_range", "not_implemented"}
         /\ C37_Entry(counters, call.cpu_number) = C37_Entry(call.before, call.cpu_number)
    /\ (C37_Indexes /\ ~counters.cpus.null) =>
         call.cpu_number \in DOMAIN counters.cpus.at
    /\ C37_OthersKept

\* After calloc failed in perfInit, a call with a valid cpu_number went on to
\* counters.cpus[cpu_number] with the table NULL.
C37_NullTable_Reached ==
  /\ C37_Single
  /\ call.path = "null_dereference"
  /\ counters.cpus.null
  /\ 0 <= call.cpu_number /\ call.cpu_number < counters.nProcs
  /\ call.in.failed = "none"


(***************************************************************************)
(* C38: the conjoint copy routines are overlap-safe.                       *)
(***************************************************************************)
\* The destination range to[0..count).
C38_Destination == {copy.to0 + i : i \in 0..(copy.count - 1)}

\* The number of stores made so far to the element at a.
C38_StoresTo(a) ==
  Cardinality({k \in 1..Len(copy.stores) : copy.stores[k].at = a})

\* Every store so far is one store of the element's width into to[0..count), and
\* no element has been stored to twice.
C38_StoresSound ==
  /\ \A k \in 1..Len(copy.stores) :
       /\ copy.stores[k].at \in C38_Destination
       /\ copy.stores[k].bytes = sizeof(copy.elem)
  /\ \A a \in Cells : C38_StoresTo(a) <= 1

\* At return, to[i] holds what from[i] held at the call, and the rest of memory
\* is as it was.
C38_Copied ==
  /\ \A i \in 0..(copy.count - 1) :
       copy.mem[copy.to0 + i] = Contents[copy.from0 + i]
  /\ \A a \in Cells \ C38_Destination : copy.mem[a] = Contents[a]

\* C38 as stated: for every count and every relative position of the ranges,
\* identical ones included, at return to[i] holds what from[i] held, every
\* element of to[0..count) has been written exactly once by one element-wide
\* store, and nothing else has been written.
C38_OverlapSafe_AsStated ==
  /\ copy.pc # "none" => C38_StoresSound
  /\ copy.pc = "return" =>
       /\ C38_Copied
       /\ \A a \in C38_Destination : C38_StoresTo(a) = 1

\* C38, amended: as stated when from # to; when from = to nothing is written
\* (the destination already holds the source).
C38_OverlapSafe ==
  /\ copy.pc # "none" => C38_StoresSound
  /\ copy.pc = "return" =>
       /\ C38_Copied
       /\ \A a \in C38_Destination :
            C38_StoresTo(a) = IF copy.from0 = copy.to0 THEN 0 ELSE 1

\* A copy of overlapping ranges with the source below the destination returned,
\* having moved every element.
C38_OverlapSafe_Witness ==
  /\ copy.pc = "return"
  /\ copy.count >= 2
  /\ copy.from0 < copy.to0
  /\ copy.to0 < copy.from0 + copy.count
  /\ Len(copy.stores) = copy.count
  /\ C38_Copied

====
